---- MODULE Spec2Model ----
(***************************************************************************)
(* Stabalyzer.                                                             *)
(*                                                                         *)
(* The Diplomacy adjudicator (Adjudicator.resolve) as a state machine, one *)
(* action per phase handler: resolveDiplomacy, resolveRetreats,            *)
(* resolveBuilds.  The game state of the program is the variable `state`;  *)
(* `input`, `orders`, `resolutions` and `outcome` record the arguments and *)
(* the result of the last call of resolve.  Specification: Spec.           *)
(*                                                                         *)
(* The search coordinator (parallelSearch) with its worker threads:        *)
(* `workers`, `results`, `totalProgress`, `signal`, `coordinator` and      *)
(* `mergedResult`.  Specifications: CoordinatorSpec and, with the          *)
(* fairness of the event loop, FairCoordinatorSpec.                        *)
(*                                                                         *)
(* The order sampler of the search (sampleCoherentOrders): `position` is   *)
(* the game state it is called on and `sample` the orders it returned,     *)
(* with the intermediate assignments of its phases.  Specification:        *)
(* SamplerSpec.                                                            *)
(*                                                                         *)
(* The tree search (MCTSEngine.search), one action per step of its loop:   *)
(* `engines` holds the engines of two searches with the same seed and the  *)
(* same configuration, `draws` the values their random generators return.  *)
(* Specification: SearchSpec.                                              *)
(*                                                                         *)
(* Movement adjudications by themselves, one call of resolve on each of a  *)
(* set of positions, with the resolution states of the steps of            *)
(* resolveDiplomacy as operators. Specification: MovementSpec.  Retreat     *)
(* adjudications by themselves, one call of resolve on each of the Retreat *)
(* positions those adjudications leave.  Specification: RetreatSpec.       *)
(*                                                                         *)
(* The transposition table of the search (TranspositionTable): `table`     *)
(* holds its capacity and its entries in insertion order. Specification:   *)
(* TableSpec.                                                              *)
(*                                                                         *)
(* The pure functions of the search, calculateFitness and zobristHash:     *)
(* `call` records the arguments and the result of the last call.           *)
(* Specifications: FitnessSpec and ZobristSpec.                            *)
(***************************************************************************)
EXTENDS Integers, Sequences, FiniteSets, TLC

VARIABLES state, input, orders, resolutions, outcome, scenario

VARIABLES workers, results, totalProgress, signal, coordinator, mergedResult

VARIABLES position, sample

VARIABLES engines, draws

VARIABLES table, call

adjudicatorVars == <<state, input, orders, resolutions, outcome, scenario>>

coordinatorVars == <<workers, results, totalProgress, signal, coordinator, mergedResult>>

samplerVars == <<position, sample>>

searchVars == <<engines, draws>>

utilVars == <<table, call>>

engineVars == <<samplerVars, searchVars, utilVars>>

vars == <<adjudicatorVars, coordinatorVars, engineVars>>

\* no parallelSearch is in progress
NoCoordinator ==
    /\ workers = <<>>
    /\ results = <<>>
    /\ totalProgress = 0
    /\ signal = [aborted |-> FALSE]
    /\ coordinator = "idle"
    /\ mergedResult = [rankedMoves |-> <<>>, totalSimulations |-> 0]

\* no order sample has been drawn
NoSample == [powers |-> <<>>, assigned |-> <<>>, primaryActions |-> <<>>, finalOrders |-> <<>>]

\* no engine is constructed
NoSearch == engines = <<>> /\ draws = <<>>

\* no table is constructed and no function of the utilities is called
NoUtil ==
    /\ table = [maxSize |-> 0, entries |-> <<>>]
    /\ call = [name |-> "none"]

NoEngine == position = 1 /\ sample = NoSample /\ NoSearch /\ NoUtil

(***************************************************************************)
(* Bounds of the model.                                                    *)
(***************************************************************************)
\* the last year in which orders are adjudicated
MaxYear == 1901

\* the largest number of orders submitted to one adjudication
MaxOrders == 4

(***************************************************************************)
(* core/types.ts                                                           *)
(***************************************************************************)
ALL_POWERS == <<"England", "France", "Germany", "Italy", "Austria", "Russia", "Turkey">>

\* Coast = 'nc' | 'sc' | 'ec' | 'wc' | null
NullCoast == "null"

Loc(p, c) == [provinceId |-> p, coast |-> c]

\* the location a field holds when the order type does not have the field
NoLoc == Loc("-", NullCoast)

MkUnit(t, pw, l) == [type |-> t, power |-> pw, location |-> l]

\* Orders: one record shape for the tagged union; a field an order type does
\* not have holds NoLoc / FALSE / "-".
MkOrder(t, u, d, s, c, via, ut, l, pw) ==
    [type |-> t, unit |-> u, destination |-> d, supportedUnit |-> s,
     convoyedUnit |-> c, viaConvoy |-> via, unitType |-> ut, location |-> l,
     power |-> pw]

HoldOrder(u) == MkOrder("hold", u, NoLoc, NoLoc, NoLoc, FALSE, "-", NoLoc, "-")
MoveOrder(u, d, via) == MkOrder("move", u, d, NoLoc, NoLoc, via, "-", NoLoc, "-")
SupportOrder(u, s, d) == MkOrder("support", u, d, s, NoLoc, FALSE, "-", NoLoc, "-")
ConvoyOrder(u, c, d) == MkOrder("convoy", u, d, NoLoc, c, FALSE, "-", NoLoc, "-")
RetreatOrder(u, d) == MkOrder("retreat", u, d, NoLoc, NoLoc, FALSE, "-", NoLoc, "-")
DisbandOrder(u) == MkOrder("disband", u, NoLoc, NoLoc, NoLoc, FALSE, "-", NoLoc, "-")
BuildOrder(pw, ut, l) == MkOrder("build", NoLoc, NoLoc, NoLoc, NoLoc, FALSE, ut, l, pw)
WaiveOrder(pw) == MkOrder("waive", NoLoc, NoLoc, NoLoc, NoLoc, FALSE, "-", NoLoc, pw)

ResolutionStatus == {"succeeds", "fails", "void", "cut", "dislodged", "bounced"}

TurnInfo(y, s, p) == [year |-> y, season |-> s, phase |-> p]

(***************************************************************************)
(* core/mapData.ts, restricted to the provinces around the Black Sea.      *)
(* Adjacency lists are the lists of the source; an entry "bul/ec" of a     *)
(* fleet list is the pair Loc("bul", "ec"), a plain entry "rum" is         *)
(* Loc("rum", NullCoast).                                                  *)
(***************************************************************************)
P(p) == Loc(p, NullCoast)

NoCoasts == [c \in {} |-> <<>>]

ProvinceData(t, sc, home, army, fleet, coastal) ==
    [type |-> t, isSupplyCenter |-> sc, homeCenter |-> home,
     armyAdj |-> army, fleetAdj |-> fleet, coastalAdj |-> coastal]

PROVINCES ==
    [p \in {"mos", "ukr", "ank", "arm", "con", "rum", "sev", "smy", "bul", "aeg", "bla",
            "eas"} |->
        CASE p = "mos" -> ProvinceData("land", TRUE, "Russia",
                            <<"stp", "fin", "lvn", "war", "ukr", "sev">>, <<>>, NoCoasts)
          [] p = "ukr" -> ProvinceData("land", FALSE, "-",
                            <<"mos", "sev", "rum", "gal", "war">>, <<>>, NoCoasts)
          [] p = "ank" -> ProvinceData("coastal", TRUE, "Turkey",
                            <<"con", "smy", "arm">>,
                            <<P("con"), P("bla"), P("arm")>>, NoCoasts)
          [] p = "arm" -> ProvinceData("coastal", FALSE, "-",
                            <<"ank", "smy", "syr", "sev">>,
                            <<P("ank"), P("bla"), P("sev")>>, NoCoasts)
          [] p = "con" -> ProvinceData("coastal", TRUE, "Turkey",
                            <<"bul", "ank", "smy">>,
                            <<Loc("bul", "ec"), Loc("bul", "sc"), P("bla"), P("ank"),
                              P("smy"), P("aeg")>>, NoCoasts)
          [] p = "rum" -> ProvinceData("coastal", TRUE, "-",
                            <<"bud", "gal", "ukr", "sev", "bul", "ser">>,
                            <<P("sev"), P("bla"), Loc("bul", "ec")>>, NoCoasts)
          [] p = "sev" -> ProvinceData("coastal", TRUE, "Russia",
                            <<"ukr", "mos", "arm", "rum">>,
                            <<P("rum"), P("bla"), P("arm")>>, NoCoasts)
          [] p = "smy" -> ProvinceData("coastal", TRUE, "Turkey",
                            <<"con", "ank", "arm", "syr">>,
                            <<P("con"), P("aeg"), P("eas"), P("syr")>>, NoCoasts)
          [] p = "bul" -> ProvinceData("bicoastal", TRUE, "-",
                            <<"ser", "rum", "con", "gre">>, <<>>,
                            [c \in {"ec", "sc"} |->
                                IF c = "ec" THEN <<P("rum"), P("bla"), P("con")>>
                                            ELSE <<P("con"), P("aeg"), P("gre")>>])
          [] p = "aeg" -> ProvinceData("sea", FALSE, "-", <<>>,
                            <<P("gre"), Loc("bul", "sc"), P("con"), P("smy"),
                              P("eas"), P("ion")>>, NoCoasts)
          [] p = "eas" -> ProvinceData("sea", FALSE, "-", <<>>,
                            <<P("ion"), P("aeg"), P("smy"), P("syr")>>, NoCoasts)
          [] p = "bla" -> ProvinceData("sea", FALSE, "-", <<>>,
                            <<P("rum"), P("sev"), P("arm"), P("ank"), P("con"),
                              Loc("bul", "ec")>>, NoCoasts)]

Provinces == DOMAIN PROVINCES

SUPPLY_CENTERS == {p \in Provinces : PROVINCES[p].isSupplyCenter}

\* HOME_CENTERS.get(p): the home power, "-" when p is no home center
HOME_CENTERS(p) == IF p \in Provinces THEN PROVINCES[p].homeCenter ELSE "-"

Includes(seq, x) == \E i \in 1..Len(seq) : seq[i] = x

\* stripCoast("bul/ec") = "bul"
stripCoast(entry) == entry.provinceId

isAdjacent(from, to, unitType, fromCoast, toCoast) ==
    IF from \notin Provinces THEN FALSE
    ELSE IF to \notin Provinces THEN FALSE
    ELSE LET province == PROVINCES[from]
             dest == PROVINCES[to]
         IN IF unitType = "Army"
            THEN (IF dest.type = "sea" THEN FALSE ELSE Includes(province.armyAdj, to))
            ELSE IF dest.type = "land" THEN FALSE
            ELSE IF province.type = "bicoastal"
            THEN IF fromCoast = NullCoast THEN FALSE
                 ELSE IF fromCoast \notin DOMAIN province.coastalAdj THEN FALSE
                 ELSE LET adj == province.coastalAdj[fromCoast]
                      IN IF dest.type = "bicoastal" /\ toCoast # NullCoast
                         THEN Includes(adj, Loc(to, toCoast))
                         ELSE \E i \in 1..Len(adj) : stripCoast(adj[i]) = to
            ELSE IF dest.type = "bicoastal"
            THEN IF toCoast # NullCoast
                 THEN Includes(province.fleetAdj, Loc(to, toCoast))
                 ELSE \E i \in 1..Len(province.fleetAdj) :
                          stripCoast(province.fleetAdj[i]) = to
            ELSE \E i \in 1..Len(province.fleetAdj) :
                     stripCoast(province.fleetAdj[i]) = to

\* the list of province ids a unit can reach (coast qualifiers stripped)
getAdjacentProvinces(provinceId, unitType, coast) ==
    IF provinceId \notin Provinces THEN <<>>
    ELSE LET province == PROVINCES[provinceId]
         IN IF unitType = "Army" THEN province.armyAdj
            ELSE IF province.type = "bicoastal"
            THEN IF coast = NullCoast THEN <<>>
                 ELSE IF coast \notin DOMAIN province.coastalAdj THEN <<>>
                 ELSE [i \in 1..Len(province.coastalAdj[coast]) |->
                          stripCoast(province.coastalAdj[coast][i])]
            ELSE [i \in 1..Len(province.fleetAdj) |-> stripCoast(province.fleetAdj[i])]

\* Object.keys(prov.coastalAdj) in the order of the literal
coastKeys(provinceId) ==
    IF provinceId = "bul" THEN <<"ec", "sc">> ELSE <<>>

(***************************************************************************)
(* core/adjudicator.ts: helpers                                            *)
(***************************************************************************)
getOrderLocation(order) ==
    CASE order.type \in {"hold", "move", "support", "convoy", "retreat", "disband"}
            -> order.unit
      [] order.type = "build" -> order.location
      [] OTHER -> Loc("", NullCoast)

locationMatches(a, b) ==
    a.provinceId = b.provinceId /\
    (a.coast = b.coast \/ a.coast = NullCoast \/ b.coast = NullCoast)

provinceMatches(a, b) == a = b

\* Array.prototype.findIndex over a sequence, 1-based; 0 when nothing matches
FindIndex(seq, Test(_)) ==
    IF \E i \in 1..Len(seq) : Test(seq[i])
    THEN CHOOSE i \in 1..Len(seq) : Test(seq[i]) /\ \A j \in 1..(i - 1) : ~Test(seq[j])
    ELSE 0

\* state.units.find(u => locationMatches(u.location, loc)), as an index
findUnitIndex(units, loc) ==
    LET Test(u) == locationMatches(u.location, loc) IN FindIndex(units, Test)

(***************************************************************************)
(* core/adjudicator.ts: Diplomacy (movement) phase                         *)
(***************************************************************************)
\* ResolutionState; dislodgerFrom = NoLoc is `undefined`.  The free-text
\* `reason` and the never-read `convoyPath` are not kept.
ResolutionState(o) ==
    [order |-> o.order, power |-> o.power, status |-> "succeeds",
     attackStrength |-> 0, defendStrength |-> 0, holdStrength |-> 0,
     preventStrength |-> 0, resolved |-> FALSE, dislodged |-> FALSE,
     dislodgerFrom |-> NoLoc, supportCut |-> FALSE]

\* rs.status = s; rs.resolved = true
Settle(rss, i, s) == [rss EXCEPT ![i].status = s, ![i].resolved = TRUE]

\* the set of sea provinces with a convoying fleet that the breadth-first
\* search of findConvoyPath visits
RECURSIVE convoyReach(_, _)
convoyReach(fleetLocations, visited) ==
    LET next == {e.provinceId : e \in
                    UNION {{PROVINCES[c].fleetAdj[i] : i \in 1..Len(PROVINCES[c].fleetAdj)} :
                           c \in visited}}
        more == {a \in next : /\ a \notin visited
                              /\ a \in Provinces
                              /\ PROVINCES[a].type = "sea"
                              /\ a \in fleetLocations}
    IN IF more = {} THEN visited ELSE convoyReach(fleetLocations, visited \cup more)

\* findConvoyPath(...) !== null
findConvoyPath(rss, from, to) ==
    LET convoyFleets == {i \in 1..Len(rss) :
                            /\ rss[i].order.type = "convoy"
                            /\ ~rss[i].resolved
                            /\ rss[i].order.convoyedUnit.provinceId = from
                            /\ rss[i].order.destination.provinceId = to}
        fleetLocations == {getOrderLocation(rss[i].order).provinceId : i \in convoyFleets}
    IN IF convoyFleets = {} THEN FALSE
       ELSE IF from \notin Provinces THEN FALSE
       ELSE LET src == PROVINCES[from].fleetAdj
                start == {src[i].provinceId : i \in
                             {j \in 1..Len(src) : /\ src[j].coast = NullCoast
                                                  /\ src[j].provinceId \in Provinces
                                                  /\ PROVINCES[src[j].provinceId].type = "sea"
                                                  /\ src[j].provinceId \in fleetLocations}}
            IN \E c \in convoyReach(fleetLocations, start) :
                   to \in Provinces /\ Includes(PROVINCES[c].fleetAdj, P(to))

\* the body of the loop of validateOrders for resStates[i]
validateOne(st, rss, i) ==
    LET rs == rss[i]
        order == rs.order
        ui == findUnitIndex(st.units, getOrderLocation(order))
        unit == st.units[ui]
        phaseless == order.type \in {"build", "waive"}
    IN IF ui = 0 /\ ~phaseless THEN Settle(rss, i, "void")
       ELSE IF ui # 0 /\ unit.power # rs.power /\ ~phaseless THEN Settle(rss, i, "void")
       ELSE IF ui = 0 THEN rss
       ELSE CASE order.type = "move" ->
                   IF order.unit.provinceId = order.destination.provinceId
                   THEN Settle(rss, i, "void")
                   ELSE IF order.viaConvoy /\ unit.type = "Fleet"
                   THEN Settle(rss, i, "void")
                   ELSE LET direct == isAdjacent(unit.location.provinceId,
                                                 order.destination.provinceId, unit.type,
                                                 unit.location.coast, order.destination.coast)
                        IN IF ~direct /\ ~order.viaConvoy
                           THEN IF unit.type = "Army"
                                THEN IF findConvoyPath(rss, unit.location.provinceId,
                                                       order.destination.provinceId)
                                     THEN rss
                                     ELSE Settle(rss, i, "void")
                                ELSE Settle(rss, i, "void")
                           ELSE rss
              [] order.type = "support" ->
                   LET canReach == isAdjacent(unit.location.provinceId,
                                              order.destination.provinceId, unit.type,
                                              unit.location.coast, order.destination.coast)
                   IN IF ~canReach /\ order.destination.provinceId # unit.location.provinceId
                      THEN IF locationMatches(order.destination, order.supportedUnit)
                           THEN IF isAdjacent(unit.location.provinceId,
                                              order.supportedUnit.provinceId, unit.type,
                                              unit.location.coast, NullCoast)
                                THEN rss
                                ELSE Settle(rss, i, "void")
                           ELSE Settle(rss, i, "void")
                      ELSE rss
              [] order.type = "convoy" ->
                   IF unit.type # "Fleet" \/ PROVINCES[unit.location.provinceId].type # "sea"
                   THEN Settle(rss, i, "void")
                   ELSE rss
              [] OTHER -> rss

RECURSIVE validateFrom(_, _, _)
validateFrom(st, rss, i) ==
    IF i > Len(rss) THEN rss ELSE validateFrom(st, validateOne(st, rss, i), i + 1)

validateOrders(st, rss) == validateFrom(st, rss, 1)

isConvoyMove(st, rs) ==
    IF rs.order.type # "move" THEN FALSE
    ELSE IF rs.order.viaConvoy THEN TRUE
    ELSE LET ui == findUnitIndex(st.units, rs.order.unit)
             unit == st.units[ui]
         IN IF ui = 0 THEN FALSE
            ELSE IF unit.type # "Army" THEN FALSE
            ELSE ~isAdjacent(unit.location.provinceId, rs.order.destination.provinceId,
                             unit.type, unit.location.coast, rs.order.destination.coast)

\* convoy moves are examined in list order; a failed move does not change
\* what findConvoyPath reads (the convoy orders), so the loop is a map
resolveConvoys(st, rss) ==
    [i \in 1..Len(rss) |->
        IF /\ rss[i].order.type = "move"
           /\ ~rss[i].resolved
           /\ isConvoyMove(st, rss[i])
           /\ ~findConvoyPath(rss, rss[i].order.unit.provinceId,
                              rss[i].order.destination.provinceId)
        THEN [rss[i] EXCEPT !.status = "fails", !.resolved = TRUE]
        ELSE rss[i]]

\* a cut by every unresolved move into the province of the supporting unit
isCutByAnyMove(rss, i) ==
    \E m \in 1..Len(rss) :
        /\ rss[m].order.type = "move"
        /\ ~rss[m].resolved
        /\ locationMatches(rss[m].order.destination, rss[i].order.unit)

\* does some unresolved move cut the support resStates[i]
isCut(rss, i) ==
    LET so == rss[i].order
    IN \E m \in 1..Len(rss) :
          /\ rss[m].order.type = "move"
          /\ ~rss[m].resolved
          /\ locationMatches(rss[m].order.destination, so.unit)
          /\ ~(/\ locationMatches(rss[m].order.unit, so.destination)
               /\ ~locationMatches(so.supportedUnit, so.destination))

cutSupports(st, rss) ==
    [i \in 1..Len(rss) |->
        IF rss[i].order.type = "support" /\ ~rss[i].resolved /\ isCut(rss, i)
        THEN [rss[i] EXCEPT !.supportCut = TRUE, !.status = "cut", !.resolved = TRUE]
        ELSE rss[i]]

\* the power of the first order addressed to the province; "-" for null
findUnitAtProvince(rss, provinceId) ==
    LET Test(rs) == getOrderLocation(rs.order).provinceId = provinceId
        k == FindIndex(rss, Test)
    IN IF k = 0 THEN "-" ELSE rss[k].power

countSupports(rss, target) ==
    LET targetLoc == getOrderLocation(target.order)
    IN Cardinality({i \in 1..Len(rss) :
          /\ rss[i].order.type = "support"
          /\ ~rss[i].resolved
          /\ ~rss[i].supportCut
          /\ locationMatches(rss[i].order.supportedUnit, targetLoc)
          /\ locationMatches(rss[i].order.destination, targetLoc)})

countMoveSupports(rss, moveState) ==
    IF moveState.order.type # "move" THEN 0
    ELSE LET mo == moveState.order
             targetPower == findUnitAtProvince(rss, mo.destination.provinceId)
         IN Cardinality({i \in 1..Len(rss) :
               /\ rss[i].order.type = "support"
               /\ ~rss[i].resolved
               /\ ~rss[i].supportCut
               /\ locationMatches(rss[i].order.supportedUnit, mo.unit)
               /\ provinceMatches(rss[i].order.destination.provinceId,
                                  mo.destination.provinceId)
               /\ ~(targetPower # "-" /\ targetPower = rss[i].power)})

\* is resStates[i] one side of a head-to-head battle (calculateStrengths)
hasHeadToHead(rss, i) ==
    \E k \in 1..Len(rss) :
        /\ k # i
        /\ rss[k].order.type = "move"
        /\ ~rss[k].resolved
        /\ locationMatches(rss[k].order.destination, rss[i].order.unit)
        /\ locationMatches(rss[k].order.unit, rss[i].order.destination)

calculateStrengths(st, rss) ==
    [i \in 1..Len(rss) |->
        IF rss[i].resolved THEN rss[i]
        ELSE CASE rss[i].order.type = "hold" ->
                    [rss[i] EXCEPT !.holdStrength = 1 + countSupports(rss, rss[i])]
               [] rss[i].order.type = "move" ->
                    [rss[i] EXCEPT
                        !.attackStrength = 1 + countMoveSupports(rss, rss[i]),
                        !.preventStrength = 1 + countMoveSupports(rss, rss[i]),
                        !.defendStrength = IF hasHeadToHead(rss, i)
                                           THEN 1 + countMoveSupports(rss, rss[i])
                                           ELSE 0]
               [] rss[i].order.type \in {"support", "convoy"} ->
                    [rss[i] EXCEPT !.holdStrength = 1]
               [] OTHER -> rss[i]]

\* indices of the unresolved moves other than i into destProvince, in list order
movesInto(rss, i, destProvince) ==
    SelectSeq([k \in 1..Len(rss) |-> k],
              LAMBDA k : /\ k # i
                         /\ rss[k].order.type = "move"
                         /\ ~rss[k].resolved
                         /\ provinceMatches(rss[k].order.destination.provinceId,
                                            destProvince))

\* rs.dislodged = true; rs.dislodgerFrom = from; a non-move is also settled
Dislodge(rss, d, from) ==
    IF rss[d].order.type # "move"
    THEN [rss EXCEPT ![d].dislodged = TRUE, ![d].dislodgerFrom = from,
                     ![d].status = "dislodged", ![d].resolved = TRUE]
    ELSE [rss EXCEPT ![d].dislodged = TRUE, ![d].dislodgerFrom = from]

\* set status s on every index of the sequence idx
RECURSIVE SettleAll(_, _, _)
SettleAll(rss, idx, s) ==
    IF idx = <<>> THEN rss ELSE SettleAll(Settle(rss, Head(idx), s), Tail(idx), s)

\* resolveCompetition(attacker, competitors, allStates, defender?);
\* defender = 0 when the argument is absent
resolveCompetition(rss, attacker, competitors, defender) ==
    LET allAttackers == <<attacker>> \o competitors
        strength(k) == 1 + countMoveSupports(rss, rss[k])
        top == CHOOSE k \in 1..Len(allAttackers) :
                   \A j \in 1..Len(allAttackers) :
                       strength(allAttackers[k]) >= strength(allAttackers[j])
        shared == \E j \in 1..Len(allAttackers) :
                      j # top /\ strength(allAttackers[j]) = strength(allAttackers[top])
        winner == allAttackers[top]
        defenseStrength == IF defender # 0 THEN 1 + countSupports(rss, rss[defender]) ELSE 0
        losers == SelectSeq(allAttackers, LAMBDA k : k # winner)
    IN IF Len(allAttackers) >= 2 /\ shared
       THEN SettleAll(rss, allAttackers, "bounced")
       ELSE IF strength(winner) > defenseStrength
       THEN LET won == Settle(rss, winner, "succeeds")
                out == IF defender # 0
                       THEN Dislodge(won, defender, rss[winner].order.unit)
                       ELSE won
            IN SettleAll(out, losers, "bounced")
       ELSE SettleAll(rss, allAttackers, "bounced")

\* a head-to-head battle in which both moves bounce whatever their strengths
bounceHeadToHead(rss, i, k) == Settle(Settle(rss, i, "bounced"), k, "bounced")

\* the head-to-head branch of resolveMoves: the move resStates[i] against
\* the move resStates[k] ordered into its province
resolveHeadToHead(rss, i, k) ==
    LET myStrength == 1 + countMoveSupports(rss, rss[i])
        theirStrength == 1 + countMoveSupports(rss, rss[k])
    IN IF myStrength > theirStrength
       THEN [Settle(Settle(rss, i, "succeeds"), k, "bounced")
                EXCEPT ![k].dislodged = TRUE,
                       ![k].dislodgerFrom = rss[i].order.unit]
       ELSE IF theirStrength > myStrength
       THEN [Settle(Settle(rss, i, "bounced"), k, "succeeds")
                EXCEPT ![i].dislodged = TRUE,
                       ![i].dislodgerFrom = rss[k].order.unit]
       ELSE Settle(Settle(rss, i, "bounced"), k, "bounced")

\* holdStr of resolveMoves: the strength the occupant occ of the
\* destination is defended with
holdStr(rss, occ) ==
    IF occ.order.type = "hold"
    THEN 1 + countSupports(rss, occ)
    ELSE IF occ.order.type = "move" /\ occ.status = "bounced"
    THEN 1 + countSupports(rss, occ)
    ELSE 1

\* the body of the inner loop of resolveMoves for resStates[i]:
\* the new resStates and whether `changed` was set
resolveOne(rss, i) ==
    LET rs == rss[i]
        mo == rs.order
        destProvince == mo.destination.provinceId
        OccTest(k) == /\ k # i
                      /\ ~rss[k].dislodged
                      /\ provinceMatches(getOrderLocation(rss[k].order).provinceId,
                                         destProvince)
        destOccupant == FindIndex([k \in 1..Len(rss) |-> k], OccTest)
        H2HTest(k) == /\ k # i
                      /\ rss[k].order.type = "move"
                      /\ ~rss[k].resolved
                      /\ locationMatches(rss[k].order.destination, mo.unit)
                      /\ provinceMatches(rss[k].order.unit.provinceId, destProvince)
        headToHead == FindIndex([k \in 1..Len(rss) |-> k], H2HTest)
        others == movesInto(rss, i, destProvince)
        myStrength == 1 + countMoveSupports(rss, rs)
        Same == [rss |-> rss, changed |-> FALSE]
        Changed(r) == [rss |-> r, changed |-> TRUE]
    IN IF rs.resolved \/ rs.order.type # "move" THEN Same
       ELSE IF headToHead # 0
       THEN Changed(resolveHeadToHead(rss, i, headToHead))
       ELSE IF destOccupant # 0
       THEN LET occ == rss[destOccupant]
            IN IF occ.order.type = "move" /\ ~occ.resolved THEN Same
               ELSE IF occ.order.type = "move" /\ occ.status = "succeeds"
               THEN IF others = <<>>
                    THEN Changed(Settle(rss, i, "succeeds"))
                    ELSE Changed(resolveCompetition(rss, i, others, 0))
               ELSE IF occ.power = rs.power
               THEN Changed(Settle(rss, i, "bounced"))
               ELSE IF myStrength > holdStr(rss, occ) /\ others = <<>>
               THEN Changed(Dislodge(Settle(rss, i, "succeeds"), destOccupant, mo.unit))
               ELSE IF myStrength <= holdStr(rss, occ) /\ others = <<>>
               THEN Changed(Settle(rss, i, "bounced"))
               ELSE Changed(resolveCompetition(rss, i, others, destOccupant))
       ELSE IF others = <<>>
       THEN Changed(Settle(rss, i, "succeeds"))
       ELSE Changed(resolveCompetition(rss, i, others, 0))

\* one execution of the for loop over resStates; nextOrder continues it
\* after the body r = resolveOne(resStates, i)
RECURSIVE resolvePass(_, _, _)
nextOrder(r, i, changed) == resolvePass(r.rss, i + 1, changed \/ r.changed)

resolvePass(rss, i, changed) ==
    IF i > Len(rss) THEN [rss |-> rss, changed |-> changed]
    ELSE nextOrder(resolveOne(rss, i), i, changed)

maxIterations == 100

\* while (changed && iterations < maxIterations); nextIteration tests the
\* condition after the pass r
RECURSIVE resolveLoop(_, _)
nextIteration(r, iterations) ==
    IF r.changed THEN resolveLoop(r.rss, iterations + 1) ELSE r.rss

resolveLoop(rss, iterations) ==
    IF iterations >= maxIterations THEN rss
    ELSE nextIteration(resolvePass(rss, 1, FALSE), iterations)

\* srcMap.get(province): the last unresolved move from the province, 0 if none
srcMapGet(rss, unresolvedMoves, province) ==
    LET from == {k \in 1..Len(unresolvedMoves) :
                    rss[unresolvedMoves[k]].order.unit.provinceId = province}
    IN IF from = {} THEN 0
       ELSE unresolvedMoves[CHOOSE k \in from : \A j \in from : j <= k]

\* follow the chain of destinations from `current`; the chain built so far
\* and the entry at which the walk stopped (0 for undefined)
RECURSIVE followChain(_, _, _, _)
followChain(rss, unresolvedMoves, chain, current) ==
    IF current = 0 THEN [chain |-> chain, current |-> 0]
    ELSE IF \E k \in 1..Len(chain) :
                rss[chain[k]].order.unit.provinceId = rss[current].order.unit.provinceId
    THEN [chain |-> chain, current |-> current]
    ELSE followChain(rss, unresolvedMoves, Append(chain, current),
                     srcMapGet(rss, unresolvedMoves, rss[current].order.destination.provinceId))

\* the validity test of a detected cycle, over the live resStates
cycleValid(live, cycle) ==
    \A m \in 1..Len(cycle) :
        LET destProv == live[cycle[m]].order.destination.provinceId
        IN /\ \E c \in 1..Len(cycle) : live[cycle[c]].order.unit.provinceId = destProv
           /\ ~\E o \in 1..Len(live) :
                  /\ o # cycle[m]
                  /\ ~Includes(cycle, o)
                  /\ live[o].order.type = "move"
                  /\ provinceMatches(live[o].order.destination.provinceId, destProv)
                  /\ (live[o].status = "succeeds" \/ ~live[o].resolved)

\* the loop over unresolvedMoves that detects circular movement; `snap` is
\* resStates when the loop starts (unresolvedMoves and srcMap are built
\* from it and moves never change source or destination)
RECURSIVE detectCycles(_, _, _, _, _)
detectCycles(snap, live, unresolvedMoves, n, visited) ==
    IF n > Len(unresolvedMoves) THEN live
    ELSE LET rs == unresolvedMoves[n]
             startProv == snap[rs].order.unit.provinceId
             walk == followChain(snap, unresolvedMoves, <<>>, rs)
             cycleProv == snap[walk.current].order.unit.provinceId
             cycleStart == FindIndex(walk.chain,
                               LAMBDA c : snap[c].order.unit.provinceId = cycleProv)
             cycle == SubSeq(walk.chain, cycleStart, Len(walk.chain))
         IN IF startProv \in visited
            THEN detectCycles(snap, live, unresolvedMoves, n + 1, visited)
            ELSE IF walk.current = 0
            THEN detectCycles(snap, live, unresolvedMoves, n + 1, visited)
            ELSE IF Len(cycle) < 2
            THEN detectCycles(snap, live, unresolvedMoves, n + 1, visited)
            ELSE IF cycleValid(live, cycle)
            THEN detectCycles(snap, SettleAll(live, cycle, "succeeds"), unresolvedMoves,
                              n + 1,
                              visited \cup {snap[cycle[c]].order.unit.provinceId :
                                               c \in 1..Len(cycle)})
            ELSE detectCycles(snap, live, unresolvedMoves, n + 1, visited)

\* mark any remaining unresolved moves as bounced, everything as resolved
markRemaining(rss) ==
    [i \in 1..Len(rss) |->
        IF rss[i].resolved THEN rss[i]
        ELSE IF rss[i].order.type = "move"
        THEN [rss[i] EXCEPT !.status = "bounced", !.resolved = TRUE]
        ELSE [rss[i] EXCEPT !.resolved = TRUE]]

\* resStates.filter(rs => !rs.resolved && rs.order.type === 'move'), as indices
unresolvedMovesOf(rss) ==
    SelectSeq([k \in 1..Len(rss) |-> k],
              LAMBDA k : ~rss[k].resolved /\ rss[k].order.type = "move")

\* the adjudication without the circular-movement step
skipCycles(looped) == looped

\* the circular-movement step on the resStates the while loop left
resolveCycles(looped) ==
    detectCycles(looped, looped, unresolvedMovesOf(looped), 1, {})

resolveMoves(st, rss) == markRemaining(resolveCycles(resolveLoop(rss, 0)))

\* every adjacent region of the unit as a retreat, without the exclusions
adjacentRetreats(rss, i, unit) ==
    LET adjacentProvs == getAdjacentProvinces(unit.location.provinceId, unit.type,
                                              unit.location.coast)
    IN [k \in 1..Len(adjacentProvs) |-> P(adjacentProvs[k])]

\* validRetreats of the unit of the dislodged resStates[i]
validRetreats(rss, i, unit) ==
    LET standoffProvinces == {rss[k].order.destination.provinceId :
                                 k \in {j \in 1..Len(rss) : /\ rss[j].status = "bounced"
                                                            /\ rss[j].order.type = "move"}}
        occupiedProvinces ==
            {IF rss[k].order.type = "move" /\ rss[k].status = "succeeds"
                THEN rss[k].order.destination.provinceId
                ELSE getOrderLocation(rss[k].order).provinceId :
             k \in {j \in 1..Len(rss) : ~rss[j].dislodged}}
        adjacentProvs == getAdjacentProvinces(unit.location.provinceId, unit.type,
                                              unit.location.coast)
        Targets(adj) ==
            IF \/ adj = rss[i].dislodgerFrom.provinceId
               \/ adj \in standoffProvinces
               \/ adj \in occupiedProvinces
               \/ adj \notin Provinces
            THEN <<>>
            ELSE IF PROVINCES[adj].type = "bicoastal" /\ unit.type = "Fleet"
            THEN [c \in 1..Len(coastKeys(adj)) |-> Loc(adj, coastKeys(adj)[c])]
            ELSE <<P(adj)>>
        Collect[k \in 0..Len(adjacentProvs)] ==
            IF k = 0 THEN <<>> ELSE Collect[k - 1] \o Targets(adjacentProvs[k])
    IN Collect[Len(adjacentProvs)]

\* the DislodgedUnit list, in the order of resStates
determineDislodgements(st, rss) ==
    LET Entry(i) ==
            LET ui == findUnitIndex(st.units, getOrderLocation(rss[i].order))
            IN IF ~rss[i].dislodged \/ ui = 0 THEN <<>>
               ELSE <<[unit |-> st.units[ui],
                       attackerFrom |-> rss[i].dislodgerFrom,
                       validRetreats |-> validRetreats(rss, i, st.units[ui])]>>
        Collect[k \in 0..Len(rss)] ==
            IF k = 0 THEN <<>> ELSE Collect[k - 1] \o Entry(k)
    IN Collect[Len(rss)]

applySuccessfulMoves(st, rss, dislodgedUnits) ==
    LET dislodgedLocs == {dislodgedUnits[d].unit.location.provinceId :
                             d \in 1..Len(dislodgedUnits)}
        Moved(unit) ==
            LET k == FindIndex(rss,
                        LAMBDA r : locationMatches(getOrderLocation(r.order), unit.location))
            IN IF unit.location.provinceId \in dislodgedLocs THEN <<>>
               ELSE IF k # 0 /\ rss[k].order.type = "move" /\ rss[k].status = "succeeds"
               THEN <<[unit EXCEPT !.location = rss[k].order.destination]>>
               ELSE <<unit>>
        Collect[k \in 0..Len(st.units)] ==
            IF k = 0 THEN <<>> ELSE Collect[k - 1] \o Moved(st.units[k])
    IN Collect[Len(st.units)]

\* advanceTurn with a Build phase that opens the next Spring in the same year
advanceTurnSameYear(turn, hasDislodgements) ==
    IF turn.phase = "Diplomacy"
    THEN IF hasDislodgements THEN [turn EXCEPT !.phase = "Retreat"]
         ELSE IF turn.season = "Spring" THEN TurnInfo(turn.year, "Fall", "Diplomacy")
         ELSE TurnInfo(turn.year, "Fall", "Build")
    ELSE IF turn.phase = "Retreat"
    THEN IF turn.season = "Spring" THEN TurnInfo(turn.year, "Fall", "Diplomacy")
         ELSE TurnInfo(turn.year, "Fall", "Build")
    ELSE IF turn.phase = "Build"
    THEN TurnInfo(turn.year, "Spring", "Diplomacy")
    ELSE turn

advanceTurn(turn, hasDislodgements) ==
    IF turn.phase = "Diplomacy"
    THEN IF hasDislodgements THEN [turn EXCEPT !.phase = "Retreat"]
         ELSE IF turn.season = "Spring" THEN TurnInfo(turn.year, "Fall", "Diplomacy")
         ELSE TurnInfo(turn.year, "Fall", "Build")
    ELSE IF turn.phase = "Retreat"
    THEN IF turn.season = "Spring" THEN TurnInfo(turn.year, "Fall", "Diplomacy")
         ELSE TurnInfo(turn.year, "Fall", "Build")
    ELSE IF turn.phase = "Build"
    THEN TurnInfo(turn.year + 1, "Spring", "Diplomacy")
    ELSE turn

\* updateSupplyCenters without the test of the season
updateSupplyCentersEverySeason(st, newUnits) ==
    [p \in DOMAIN st.supplyCenters |->
        LET occ == {k \in 1..Len(newUnits) :
                       /\ newUnits[k].location.provinceId = p
                       /\ p \in SUPPLY_CENTERS}
        IN IF occ = {} THEN st.supplyCenters[p]
           ELSE newUnits[CHOOSE k \in occ : \A j \in occ : j <= k].power]

\* supplyCenters is a function from province id to the owner, "-" for a
\* key the Map does not hold
updateSupplyCenters(st, newUnits) ==
    IF st.turn.season # "Fall" THEN st.supplyCenters
    ELSE [p \in DOMAIN st.supplyCenters |->
            LET occ == {k \in 1..Len(newUnits) :
                           /\ newUnits[k].location.provinceId = p
                           /\ p \in SUPPLY_CENTERS}
            IN IF occ = {} THEN st.supplyCenters[p]
               ELSE newUnits[CHOOSE k \in occ : \A j \in occ : j <= k].power]

countPowerSCs(st, power) ==
    Cardinality({p \in DOMAIN st.supplyCenters : st.supplyCenters[p] = power})

\* GameState without previousOrders, which the adjudicator never reads and
\* which always equals the resolutions returned with the state
GameState(turn, units, supplyCenters, dislodgedUnits) ==
    [turn |-> turn, units |-> units, supplyCenters |-> supplyCenters,
     dislodgedUnits |-> dislodgedUnits]

\* OrderResolution: { order, power, status }
Resolution(order, power, status) == [order |-> order, power |-> power, status |-> status]

\* withDefaultHolds pushing a hold order for every unit, ordered or not
withDefaultHoldsForAll(units, allOrders, k) ==
    allOrders \o [j \in 1..(Len(units) - k + 1) |->
                     [power |-> units[j + k - 1].power,
                      order |-> HoldOrder(units[j + k - 1].location)]]

\* allOrders after the default hold orders were pushed; ords is the
\* flattened Map<Power, Order[]>, a sequence of [power, order]
RECURSIVE withDefaultHolds(_, _, _)
withDefaultHolds(units, allOrders, k) ==
    IF k > Len(units) THEN allOrders
    ELSE IF \E i \in 1..Len(allOrders) :
                locationMatches(getOrderLocation(allOrders[i].order), units[k].location)
    THEN withDefaultHolds(units, allOrders, k + 1)
    ELSE withDefaultHolds(units,
                          Append(allOrders, [power |-> units[k].power,
                                             order |-> HoldOrder(units[k].location)]),
                          k + 1)

\* resStates after steps 1 and 2 of resolveDiplomacy
withConvoys(st, ords) ==
    LET allOrders == withDefaultHolds(st.units, ords, 1)
        resStates == [i \in 1..Len(allOrders) |-> ResolutionState(allOrders[i])]
    IN resolveConvoys(st, validateOrders(st, resStates))

\* resStates after steps 1 to 4 of resolveDiplomacy
withStrengths(st, ords) == calculateStrengths(st, cutSupports(st, withConvoys(st, ords)))

\* resStates after steps 1 to 5 of resolveDiplomacy
adjudicateMoves(st, ords) == resolveMoves(st, withStrengths(st, ords))

\* "Build resolutions" and "Build new state" of resolveDiplomacy
diplomacyResult(st, resStates, dislodgedUnits, newUnits) ==
    [resolutions |-> [i \in 1..Len(resStates) |->
                         Resolution(resStates[i].order, resStates[i].power,
                                    resStates[i].status)],
     newState |-> GameState(advanceTurn(st.turn, Len(dislodgedUnits) > 0),
                            newUnits,
                            updateSupplyCenters(st, newUnits),
                            dislodgedUnits)]

\* resolveDiplomacy from the dislodgedUnits of step 6 on
afterDislodgements(st, resStates, dislodgedUnits) ==
    diplomacyResult(st, resStates, dislodgedUnits,
                    applySuccessfulMoves(st, resStates, dislodgedUnits))

\* resolveDiplomacy from the resStates of step 5 on
afterMoves(st, resStates) ==
    afterDislodgements(st, resStates, determineDislodgements(st, resStates))

resolveDiplomacy(st, ords) == afterMoves(st, adjudicateMoves(st, ords))

(***************************************************************************)
(* core/adjudicator.ts: Retreat phase                                      *)
(***************************************************************************)
\* state.dislodgedUnits.find(d => locationMatches(d.unit.location, loc))
findDislodged(st, loc) ==
    FindIndex(st.dislodgedUnits, LAMBDA d : locationMatches(d.unit.location, loc))

\* retreatDestinations.get(destKey).push(entry), keeping the insertion order
\* of the keys of the Map
pushRetreat(dests, destKey, entry) ==
    LET k == FindIndex(dests, LAMBDA e : e.dest = destKey)
    IN IF k = 0 THEN Append(dests, [dest |-> destKey, units |-> <<entry>>])
       ELSE [dests EXCEPT ![k].units = Append(@, entry)]

\* the first loop of resolveRetreats: resolutions and retreatDestinations
RECURSIVE processRetreatOrders(_, _, _, _, _)
processRetreatOrders(st, allOrders, k, res, dests) ==
    IF k > Len(allOrders) THEN [resolutions |-> res, dests |-> dests]
    ELSE LET power == allOrders[k].power
             order == allOrders[k].order
             d == findDislodged(st, order.unit)
             isValid == \E v \in 1..Len(st.dislodgedUnits[d].validRetreats) :
                            locationMatches(st.dislodgedUnits[d].validRetreats[v],
                                            order.destination)
         IN IF order.type = "retreat"
            THEN IF d = 0
                 THEN processRetreatOrders(st, allOrders, k + 1,
                          Append(res, Resolution(order, power, "void")), dests)
                 ELSE IF ~isValid
                 THEN processRetreatOrders(st, allOrders, k + 1,
                          Append(res, Resolution(order, power, "fails")), dests)
                 ELSE processRetreatOrders(st, allOrders, k + 1,
                          Append(res, Resolution(order, power, "succeeds")),
                          pushRetreat(dests, order.destination.provinceId,
                                      [unit |-> st.dislodgedUnits[d].unit, power |-> power]))
            ELSE IF order.type = "disband"
            THEN processRetreatOrders(st, allOrders, k + 1,
                     Append(res, Resolution(order, power, "succeeds")), dests)
            ELSE processRetreatOrders(st, allOrders, k + 1, res, dests)

\* a standoff: the first retreat resolution of each of the units is bounced
RECURSIVE bounceRetreats(_, _)
bounceRetreats(res, units) ==
    IF units = <<>> THEN res
    ELSE LET k == FindIndex(res,
                     LAMBDA r : /\ r.order.type = "retreat"
                                /\ locationMatches(r.order.unit, Head(units).unit.location))
         IN bounceRetreats(IF k = 0 THEN res ELSE [res EXCEPT ![k].status = "bounced"],
                           Tail(units))

\* the second loop of resolveRetreats: standoffs and retreatedUnits
RECURSIVE settleRetreats(_, _, _, _, _)
settleRetreats(allOrders, dests, k, res, retreatedUnits) ==
    IF k > Len(dests) THEN [resolutions |-> res, retreatedUnits |-> retreatedUnits]
    ELSE IF Len(dests[k].units) > 1
    THEN settleRetreats(allOrders, dests, k + 1, bounceRetreats(res, dests[k].units),
                        retreatedUnits)
    ELSE LET unit == dests[k].units[1].unit
             o == FindIndex(allOrders,
                      LAMBDA e : /\ e.order.type = "retreat"
                                 /\ locationMatches(e.order.unit, unit.location))
         IN settleRetreats(allOrders, dests, k + 1, res,
                IF o = 0 THEN retreatedUnits
                ELSE Append(retreatedUnits,
                            [unit EXCEPT !.location = allOrders[o].order.destination]))

\* resolveRetreats that leaves the dislodged units listed in the new state
resolveRetreatsKeepingDislodged(st, ords) ==
    LET first == processRetreatOrders(st, ords, 1, <<>>, <<>>)
        second == settleRetreats(ords, first.dests, 1, first.resolutions, <<>>)
        newUnits == st.units \o second.retreatedUnits
    IN [resolutions |-> second.resolutions,
        newState |-> GameState(advanceTurn(st.turn, FALSE),
                               newUnits,
                               updateSupplyCenters(st, newUnits),
                               st.dislodgedUnits)]

resolveRetreats(st, ords) ==
    LET first == processRetreatOrders(st, ords, 1, <<>>, <<>>)
        second == settleRetreats(ords, first.dests, 1, first.resolutions, <<>>)
        newUnits == st.units \o second.retreatedUnits
    IN [resolutions |-> second.resolutions,
        newState |-> GameState(advanceTurn(st.turn, FALSE),
                               newUnits,
                               updateSupplyCenters(st, newUnits),
                               <<>>)]

(***************************************************************************)
(* core/adjudicator.ts: Build phase                                        *)
(***************************************************************************)
\* delta = scCount - unitCount of the power, from the input state
buildDelta(st, power) ==
    countPowerSCs(st, power) -
    Cardinality({k \in 1..Len(st.units) : st.units[k].power = power})

\* newUnits.splice(idx, 1)
RemoveAt(seq, idx) == SubSeq(seq, 1, idx - 1) \o SubSeq(seq, idx + 1, Len(seq))

\* the loops of resolveBuilds over the powers of the Map and their orders
RECURSIVE processBuildOrders(_, _, _, _, _)
processBuildOrders(st, allOrders, k, res, newUnits) ==
    IF k > Len(allOrders) THEN [resolutions |-> res, newUnits |-> newUnits]
    ELSE LET power == allOrders[k].power
             order == allOrders[k].order
             delta == buildDelta(st, power)
             isHomeSC == HOME_CENTERS(order.location.provinceId) = power
             isOwned == /\ order.location.provinceId \in DOMAIN st.supplyCenters
                        /\ st.supplyCenters[order.location.provinceId] = power
             isOccupied == \E u \in 1..Len(newUnits) :
                               newUnits[u].location.provinceId = order.location.provinceId
             idx == FindIndex(newUnits,
                        LAMBDA u : u.power = power /\ locationMatches(u.location, order.unit))
             Emit(status, units) ==
                 processBuildOrders(st, allOrders, k + 1,
                                    Append(res, Resolution(order, power, status)), units)
         IN IF order.type = "build" /\ delta > 0
            THEN IF ~isHomeSC THEN Emit("void", newUnits)
                 ELSE IF ~isOwned THEN Emit("void", newUnits)
                 ELSE IF isOccupied THEN Emit("fails", newUnits)
                 ELSE Emit("succeeds",
                           Append(newUnits, MkUnit(order.unitType, power, order.location)))
            ELSE IF order.type = "disband" /\ delta < 0
            THEN IF idx > 0 THEN Emit("succeeds", RemoveAt(newUnits, idx))
                 ELSE Emit("void", newUnits)
            ELSE IF order.type = "waive" THEN Emit("succeeds", newUnits)
            ELSE processBuildOrders(st, allOrders, k + 1, res, newUnits)

resolveBuilds(st, ords) ==
    LET done == processBuildOrders(st, ords, 1, <<>>, st.units)
    IN [resolutions |-> done.resolutions,
        newState |-> GameState(advanceTurn(st.turn, FALSE),
                               done.newUnits,
                               st.supplyCenters,
                               <<>>)]

\* Adjudicator.resolve: the switch on the phase; `threw` is the default
\* branch, which throws Error("Unknown phase")
resolve(st, ords) ==
    CASE st.turn.phase = "Diplomacy" -> [threw |-> FALSE, result |-> resolveDiplomacy(st, ords)]
      [] st.turn.phase = "Retreat" -> [threw |-> FALSE, result |-> resolveRetreats(st, ords)]
      [] st.turn.phase = "Build" -> [threw |-> FALSE, result |-> resolveBuilds(st, ords)]
      [] OTHER -> [threw |-> TRUE,
                   result |-> [resolutions |-> <<>>, newState |-> st]]

(***************************************************************************)
(* Positions and candidate orders.  A scenario is a position a game can    *)
(* be in and the orders its powers may submit, listed power by power as    *)
(* the Map<Power, Order[]> of resolve lists them; the orders submitted to  *)
(* one adjudication are any at most MaxOrders of them, in that order.      *)
(***************************************************************************)
O(power, order) == [power |-> power, order |-> order]

Owners(f) == [p \in Provinces |-> IF p \in DOMAIN f THEN f[p] ELSE "-"]

HomeOwners ==
    Owners([p \in {"ank", "con", "smy", "sev", "mos"} |-> PROVINCES[p].homeCenter])

Scenarios ==
    << \* a supported attack on Ankara, and the retreat of the army there
       [state |-> GameState(TurnInfo(1901, "Spring", "Diplomacy"),
                            <<MkUnit("Army", "Russia", P("arm")),
                              MkUnit("Fleet", "Russia", P("bla")),
                              MkUnit("Army", "Turkey", P("ank"))>>,
                            HomeOwners, <<>>),
        pool |-> <<O("Russia", MoveOrder(P("arm"), P("ank"), FALSE)),
                   O("Russia", SupportOrder(P("bla"), P("arm"), P("ank"))),
                   O("Turkey", HoldOrder(P("ank"))),
                   O("Turkey", RetreatOrder(P("ank"), P("con"))),
                   O("Turkey", RetreatOrder(P("ank"), P("smy"))),
                   O("Turkey", DisbandOrder(P("ank")))>>],
       \* two Turkish armies ordered into each other's province in Fall, and
       \* a Russian fleet that can support either or sail to Bulgaria
       [state |-> GameState(TurnInfo(1901, "Fall", "Diplomacy"),
                            <<MkUnit("Army", "Turkey", P("ank")),
                              MkUnit("Army", "Turkey", P("con")),
                              MkUnit("Fleet", "Russia", P("bla"))>>,
                            HomeOwners, <<>>),
        pool |-> <<O("Russia", HoldOrder(P("con"))),
                   O("Russia", SupportOrder(P("bla"), P("ank"), P("con"))),
                   O("Russia", MoveOrder(P("bla"), P("bul"), FALSE)),
                   O("Turkey", MoveOrder(P("ank"), P("con"), FALSE)),
                   O("Turkey", MoveOrder(P("con"), P("ank"), FALSE)),
                   O("Turkey", RetreatOrder(P("con"), P("smy")))>>],
       \* adjustments: Russia may build one unit, Turkey has to disband one
       [state |-> GameState(TurnInfo(1901, "Fall", "Build"),
                            <<MkUnit("Army", "Russia", P("ukr")),
                              MkUnit("Army", "Russia", P("rum")),
                              MkUnit("Fleet", "Russia", P("con")),
                              MkUnit("Army", "Turkey", P("ank")),
                              MkUnit("Army", "Turkey", P("arm"))>>,
                            Owners([p \in {"sev", "mos", "rum", "con", "ank", "smy"} |->
                                       CASE p = "ank" -> "Turkey"
                                         [] p = "smy" -> "Italy"
                                         [] OTHER -> "Russia"]),
                            <<>>),
        pool |-> <<O("Russia", BuildOrder("Russia", "Army", P("sev"))),
                   O("Russia", BuildOrder("Russia", "Fleet", P("mos"))),
                   O("Russia", BuildOrder("Russia", "Army", P("mos"))),
                   O("Turkey", DisbandOrder(P("arm"))),
                   O("Turkey", DisbandOrder(P("ank"))),
                   O("Turkey", WaiveOrder("Turkey"))>>]
    >>

\* the elements of the set S of indices in increasing order
SortedSeq(S) ==
    [k \in 1..Cardinality(S) |-> CHOOSE x \in S : Cardinality({y \in S : y < x}) = k - 1]

OrderInputs(pool) ==
    {[k \in 1..Cardinality(S) |-> pool[SortedSeq(S)[k]]] :
        S \in {T \in SUBSET (1..Len(pool)) : Cardinality(T) <= MaxOrders}}

(***************************************************************************)
(* The state machine                                                       *)
(***************************************************************************)
Init ==
    /\ scenario \in 1..Len(Scenarios)
    /\ state = Scenarios[scenario].state
    /\ input = Scenarios[scenario].state
    /\ orders = <<>>
    /\ resolutions = <<>>
    /\ outcome = "none"
    /\ NoCoordinator
    /\ NoEngine

\* the caller of resolve(state, orders) receives r
Return(ords, r) ==
    /\ input' = state
    /\ orders' = ords
    /\ outcome' = IF r.threw THEN "threw" ELSE "returned"
    /\ resolutions' = r.result.resolutions
    /\ state' = r.result.newState
    /\ UNCHANGED scenario
    /\ UNCHANGED <<coordinatorVars, engineVars>>

\* one call of Adjudicator.resolve(state, orders)
Resolve(ords) == Return(ords, resolve(state, ords))

CanResolve == outcome = "none" /\ state.turn.year <= MaxYear

ResolveDiplomacy ==
    /\ CanResolve
    /\ state.turn.phase = "Diplomacy"
    /\ \E ords \in OrderInputs(Scenarios[scenario].pool) : Resolve(ords)

ResolveRetreats ==
    /\ CanResolve
    /\ state.turn.phase = "Retreat"
    /\ \E ords \in OrderInputs(Scenarios[scenario].pool) : Resolve(ords)

ResolveBuilds ==
    /\ CanResolve
    /\ state.turn.phase = "Build"
    /\ \E ords \in OrderInputs(Scenarios[scenario].pool) : Resolve(ords)

\* the caller takes newState as the position of the next call
Continue ==
    /\ outcome = "returned"
    /\ outcome' = "none"
    /\ input' = state
    /\ orders' = <<>>
    /\ resolutions' = <<>>
    /\ UNCHANGED <<state, scenario>>
    /\ UNCHANGED <<coordinatorVars, engineVars>>

Next == ResolveDiplomacy \/ ResolveRetreats \/ ResolveBuilds \/ Continue

Spec == Init /\ [][Next]_vars

(***************************************************************************)
(* Properties of one adjudication: `input` and `orders` are what resolve   *)
(* was called with, `resolutions` and `state` what it returned.            *)
(***************************************************************************)
Returned == outcome = "returned"

AtMostOneUnitPerRegion(st) ==
    \A i, j \in 1..Len(st.units) :
        i # j => st.units[i].location.provinceId # st.units[j].location.provinceId

UnitsOf(st, power) == {k \in 1..Len(st.units) : st.units[k].power = power}

\* C1: when the input state has at most one unit per region, the state
\* returned by resolve has at most one unit per region.
C1_OneUnitPerRegion ==
    Returned /\ AtMostOneUnitPerRegion(input) => AtMostOneUnitPerRegion(state)

\* the order types a phase adjudicates
PhaseOrderTypes(phase) ==
    CASE phase = "Diplomacy" -> {"hold", "move", "support", "convoy"}
      [] phase = "Retreat" -> {"retreat", "disband"}
      [] phase = "Build" -> {"build", "disband", "waive"}
      [] OTHER -> {}

\* an order of the wrong phase, or an order for a unit the input state does
\* not hold at the order's location
FailedOrder(st, order) ==
    \/ order.type \notin PhaseOrderTypes(st.turn.phase)
    \/ /\ order.type \in {"hold", "move", "support", "convoy"}
       /\ findUnitIndex(st.units, order.unit) = 0
    \/ /\ order.type \in {"retreat", "disband"}
       /\ st.turn.phase = "Retreat"
       /\ findDislodged(st, order.unit) = 0
    \/ /\ order.type = "disband"
       /\ st.turn.phase = "Build"
       /\ findUnitIndex(st.units, order.unit) = 0

\* C2: resolve returns without raising, and an order of the wrong phase or
\* for an absent unit never has a resolution whose status is succeeds.
C2_TotalAndFailuresReported ==
    /\ outcome # "threw"
    /\ Returned =>
          \A i \in 1..Len(resolutions) :
              FailedOrder(input, resolutions[i].order) => resolutions[i].status # "succeeds"

\* C3: the turn advances by the table: Spring Movement to Fall Movement, or
\* to Spring Retreat when a unit was dislodged; Spring Retreat to Fall
\* Movement; Fall Movement to Fall Build, or to Fall Retreat when a unit was
\* dislodged; Fall Retreat to Fall Build; Fall Build to Spring Movement of
\* the next year; and the year changes in no other transition.
C3_TurnAdvance ==
    Returned =>
        LET t == input.turn
            n == state.turn
            dislodged == state.dislodgedUnits # <<>>
            Is(s, p) == t.season = s /\ t.phase = p
        IN /\ Is("Spring", "Diplomacy") /\ ~dislodged
                => n = TurnInfo(t.year, "Fall", "Diplomacy")
           /\ Is("Spring", "Diplomacy") /\ dislodged
                => n = TurnInfo(t.year, "Spring", "Retreat")
           /\ Is("Spring", "Retreat") => n = TurnInfo(t.year, "Fall", "Diplomacy")
           /\ Is("Fall", "Diplomacy") /\ ~dislodged
                => n = TurnInfo(t.year, "Fall", "Build")
           /\ Is("Fall", "Diplomacy") /\ dislodged
                => n = TurnInfo(t.year, "Fall", "Retreat")
           /\ Is("Fall", "Retreat") => n = TurnInfo(t.year, "Fall", "Build")
           /\ Is("Fall", "Build") => n = TurnInfo(t.year + 1, "Spring", "Diplomacy")
           /\ n.year # t.year => t.phase = "Build"

\* a Fall Build adjudication has returned the Spring of the next year
C3_Witness ==
    /\ Returned
    /\ input.turn = TurnInfo(1901, "Fall", "Build")
    /\ state.turn = TurnInfo(1902, "Spring", "Diplomacy")

\* C4: in a Movement adjudication no unit is dislodged by a move of a unit
\* of its own power.
C4_NoSelfDislodgement ==
    Returned /\ input.turn.phase = "Diplomacy" =>
        \A d \in 1..Len(state.dislodgedUnits) :
            LET a == findUnitIndex(input.units, state.dislodgedUnits[d].attackerFrom)
            IN a # 0 => input.units[a].power # state.dislodgedUnits[d].unit.power

\* a region legal for the kind of the unit
LegallyPlaced(unit) ==
    /\ unit.location.provinceId \in Provinces
    /\ LET prov == PROVINCES[unit.location.provinceId]
       IN /\ unit.type = "Army" => prov.type # "sea"
          /\ unit.type = "Fleet" => prov.type # "land"
          /\ unit.type = "Fleet" /\ prov.type = "bicoastal"
                => Includes(coastKeys(unit.location.provinceId), unit.location.coast)
          /\ prov.type # "bicoastal" => unit.location.coast = NullCoast

AllLegallyPlaced(st) == \A k \in 1..Len(st.units) : LegallyPlaced(st.units[k])

\* C5: when every unit of the input state is legally placed, every unit of
\* the returned state is: no army at sea, no fleet inland, and a fleet in a
\* bicoastal region on one of its coasts.
C5_LegalPlacement ==
    Returned /\ AllLegallyPlaced(input) => AllLegallyPlaced(state)

\* C6: in a Build adjudication a power with a negative delta ends with as
\* many units as supply centers, having lost exactly -delta units.
C6_DisbandsEnforced ==
    Returned /\ input.turn.phase = "Build" =>
        \A k \in 1..Len(ALL_POWERS) :
            LET power == ALL_POWERS[k]
            IN buildDelta(input, power) < 0 =>
                  Cardinality(UnitsOf(state, power)) = countPowerSCs(input, power)

\* C7: in a Build adjudication a power with a positive delta gains at most
\* delta units.
C7_BuildsLimited ==
    Returned /\ input.turn.phase = "Build" =>
        \A k \in 1..Len(ALL_POWERS) :
            LET power == ALL_POWERS[k]
            IN buildDelta(input, power) > 0 =>
                  Cardinality(UnitsOf(state, power)) <= countPowerSCs(input, power)

\* C8: in a returned state the dislodged list is non-empty exactly when the
\* phase of the state is Retreat.
C8_DislodgedIffRetreat ==
    Returned => (state.dislodgedUnits # <<>> <=> state.turn.phase = "Retreat")

\* a Movement adjudication has dislodged a unit and entered Retreat
C8_Witness ==
    /\ Returned
    /\ input.turn.phase = "Diplomacy"
    /\ state.turn.phase = "Retreat"
    /\ state.dislodgedUnits # <<>>

\* C9: a Spring Movement, a Spring Retreat and a Build adjudication return
\* the supply-center ownership of the input state.
C9_OwnershipFrame ==
    Returned /\ (input.turn.season = "Spring" \/ input.turn.phase = "Build")
        => state.supplyCenters = input.supplyCenters

\* after a Spring adjudication a unit stands in a supply center that is
\* not its power's
C9_Witness ==
    /\ Returned
    /\ input.turn.season = "Spring"
    /\ \E k \in 1..Len(state.units) :
          /\ state.units[k].location.provinceId \in SUPPLY_CENTERS
          /\ state.supplyCenters[state.units[k].location.provinceId] # state.units[k].power

SubmittedOrders == {orders[j].order : j \in 1..Len(orders)}

\* C10 as stated: every resolution carries an order of the input orders.
C10_NoFabrication ==
    Returned => \A i \in 1..Len(resolutions) : resolutions[i].order \in SubmittedOrders

\* the hold order of a unit of the input state that no input order addresses
DefaultHold(i) ==
    \E k \in 1..Len(input.units) :
        /\ resolutions[i].order = HoldOrder(input.units[k].location)
        /\ resolutions[i].power = input.units[k].power
        /\ \A j \in 1..Len(orders) :
              ~locationMatches(getOrderLocation(orders[j].order), input.units[k].location)

\* C10: every resolution carries an order of the input orders with the
\* power that submitted it, or, in a Movement adjudication, the hold order of
\* a unit that no input order addresses.
C10_OnlyDefaultHoldsAdded ==
    Returned =>
        \A i \in 1..Len(resolutions) :
            \/ \E j \in 1..Len(orders) :
                  /\ orders[j].order = resolutions[i].order
                  /\ orders[j].power = resolutions[i].power
            \/ input.turn.phase = "Diplomacy" /\ DefaultHold(i)

\* a Movement adjudication has returned a resolution for a hold order that
\* was not submitted
C10_Witness ==
    /\ Returned
    /\ input.turn.phase = "Diplomacy"
    /\ \E i \in 1..Len(resolutions) :
          resolutions[i].order \notin SubmittedOrders /\ DefaultHold(i)

(***************************************************************************)
(* Numbers.  expectedValue and stdev are JavaScript numbers that are not   *)
(* integers in general; they are kept exact here as reduced fractions      *)
(* [num, den] with den > 0.  An operator that uses an operand more than    *)
(* once first binds the operand's value to a name (as the one element of a *)
(* singleton set), so that a nested expression is computed once.           *)
(***************************************************************************)
\* Euclid's algorithm
RECURSIVE GCD(_, _)
GCD(a, b) ==
    IF b = 0 THEN a
    ELSE CHOOSE g \in {GCD(divisor, remainder) : divisor \in {b}, remainder \in {a % b}} : TRUE

Abs(x) == IF x < 0 THEN -x ELSE x

\* n/d with g the greatest common divisor of |n| and |d|
Reduced(n, d, g) ==
    IF d < 0 THEN [num |-> -(n \div g), den |-> -(d \div g)]
    ELSE [num |-> n \div g, den |-> d \div g]

Rat(n, d) ==
    CHOOSE q \in {Reduced(nv, dv, GCD(Abs(nv), Abs(dv))) : nv \in {n}, dv \in {d}} : TRUE

RatInt(n) == [num |-> n, den |-> 1]

\* the fractions are reduced before they are multiplied out, which keeps
\* the intermediate integers small
RatAddOver(x, y, g) ==
    Rat(x.num * (y.den \div g) + y.num * (x.den \div g), (x.den \div g) * y.den)

RatAdd(x, y) ==
    CHOOSE q \in {RatAddOver(xv, yv, g) :
                    <<xv, yv, g>> \in {<<x, y, GCD(x.den, y.den)>>}} : TRUE

RatMulReduced(a, b) == [num |-> a.num * b.num, den |-> a.den * b.den]

RatMul(x, y) ==
    CHOOSE q \in {RatMulReduced(a, b) :
                    <<a, b>> \in {<<Rat(x.num, y.den), Rat(y.num, x.den)>>}} : TRUE

\* x / y for y # 0
RatDiv(x, y) == CHOOSE q \in {RatMul(xv, Rat(yv.den, yv.num)) : xv \in {x}, yv \in {y}} : TRUE

RatLessOver(x, y, g) == x.num * (y.den \div g) < y.num * (x.den \div g)

RatLess(x, y) == \E xv \in {x}, yv \in {y} : RatLessOver(xv, yv, GCD(xv.den, yv.den))

(***************************************************************************)
(* search/transposition.ts: the confidence of a ranked move                *)
(***************************************************************************)
\* Math.round(stdev * 100) / 100 for stdev >= 0
roundHundredths(stdev) == Rat((200 * stdev.num + stdev.den) \div (2 * stdev.den), 100)

determineConfidence(visits, stdev) ==
    [level |-> IF visits > 1000 /\ RatLess(stdev, Rat(15, 100)) THEN "High"
               ELSE IF visits > 500 \/ RatLess(stdev, Rat(25, 100)) THEN "Medium"
               ELSE "Low",
     visits |-> visits,
     stdev |-> roundHundredths(stdev)]

\* RankedMove; opponentOrders, predictedTurns and fitness travel with
\* `orders` and are left out
RankedMove(rank, ords, score, expectedValue, confidence) ==
    [rank |-> rank, orders |-> ords, score |-> score,
     expectedValue |-> expectedValue, confidence |-> confidence]

\* SearchResult without elapsedMs
SearchResult(rankedMoves, totalSimulations) ==
    [rankedMoves |-> rankedMoves, totalSimulations |-> totalSimulations]

(***************************************************************************)
(* search/coordinator.ts: mergeResults                                     *)
(***************************************************************************)
\* the string one order contributes to the fingerprint: "arm-ank", "H-arm",
\* "S-bla-arm-ank", or the JSON text of the order
fingerprintPart(o) ==
    CASE o.type = "move" -> <<o.unit.provinceId, o.destination.provinceId>>
      [] o.type = "hold" -> <<"H", o.unit.provinceId>>
      [] o.type = "support" ->
            <<"S", o.unit.provinceId, o.supportedUnit.provinceId, o.destination.provinceId>>
      [] OTHER -> <<"JSON", o, "", "", "">>

\* the parts, sorted and joined by "|": the sorted list is determined by how
\* often each part occurs
orderFingerprint(ords) ==
    LET parts == {fingerprintPart(ords[i]) : i \in 1..Len(ords)}
    IN [part \in parts |->
            Cardinality({i \in 1..Len(ords) : fingerprintPart(ords[i]) = part})]

\* moveMap is a JavaScript Map: the sequence of its [key, value] entries in
\* insertion order
moveMapIndex(moveMap, key) ==
    IF \E i \in 1..Len(moveMap) : moveMap[i].key = key
    THEN CHOOSE i \in 1..Len(moveMap) : moveMap[i].key = key
    ELSE 0

mergedLevel(mergedVisits) ==
    IF mergedVisits > 1000 THEN "High"
    ELSE IF mergedVisits > 500 THEN "Medium" ELSE "Low"

\* the statistics of `existing` and `move` merged (lines 196-211)
mergeStatistics(existing, move) ==
    [existing EXCEPT
        !.score = IF move.score > existing.score THEN move.score ELSE existing.score,
        !.expectedValue =
            RatDiv(RatAdd(RatMul(existing.expectedValue, RatInt(existing.confidence.visits)),
                          RatMul(move.expectedValue, RatInt(move.confidence.visits))),
                   RatInt(existing.confidence.visits + move.confidence.visits)),
        !.confidence =
            [visits |-> existing.confidence.visits + move.confidence.visits,
             stdev |-> RatDiv(RatAdd(existing.confidence.stdev, move.confidence.stdev),
                              RatInt(2)),
             level |-> mergedLevel(existing.confidence.visits + move.confidence.visits)]]

mergeMoveAt(moveMap, idx, key, move) ==
    IF idx = 0
    THEN Append(moveMap, [key |-> key, value |-> move])
    ELSE [moveMap EXCEPT ![idx].value = mergeStatistics(moveMap[idx].value, move)]

mergeMove(moveMap, key, move) == mergeMoveAt(moveMap, moveMapIndex(moveMap, key), key, move)

\* The loops of mergeResults.  Each loop binds the Map it has built so far to
\* a name (the one element of a singleton set) before it goes on, so that
\* the Map is computed once per iteration.

\* the inner loop over result.rankedMoves, from move k on
RECURSIVE mergeMoves(_, _, _)
mergeMoves(moveMap, moves, k) ==
    IF k > Len(moves) THEN moveMap
    ELSE CHOOSE done \in
            {mergeMoves(next, moves, k + 1) :
                next \in {mergeMove(moveMap, orderFingerprint(moves[k].orders), moves[k])}} :
            TRUE

\* the outer loop over results, from result r on
RECURSIVE mergeInto(_, _, _)
mergeInto(moveMap, rs, r) ==
    IF r > Len(rs) THEN moveMap
    ELSE CHOOSE done \in
            {mergeInto(next, rs, r + 1) :
                next \in {mergeMoves(moveMap, rs[r].rankedMoves, 1)}} :
            TRUE

RECURSIVE sumSimulations(_, _)
sumSimulations(rs, r) ==
    IF r > Len(rs) THEN 0 ELSE rs[r].totalSimulations + sumSimulations(rs, r + 1)

\* the place of entry i after .sort((a, b) => b.expectedValue - a.expectedValue):
\* the sort is stable, entries of equal expectedValue keep their order
sortedPlace(moveMap, i) ==
    1 + Cardinality({j \in 1..Len(moveMap) :
            \/ RatLess(moveMap[i].value.expectedValue, moveMap[j].value.expectedValue)
            \/ /\ moveMap[j].value.expectedValue = moveMap[i].value.expectedValue
               /\ j < i})

\* sort, re-rank, slice(0, 3)
rerank(moveMap) ==
    [k \in 1..(IF Len(moveMap) < 3 THEN Len(moveMap) ELSE 3) |->
        [moveMap[CHOOSE i \in 1..Len(moveMap) : sortedPlace(moveMap, i) = k].value
            EXCEPT !.rank = k]]

mergeResults(rs) ==
    IF Len(rs) = 0 THEN SearchResult(<<>>, 0)
    ELSE IF Len(rs) = 1 THEN rs[1]
    ELSE CHOOSE merged \in
            {SearchResult(rerank(moveMap), sumSimulations(rs, 1)) :
                moveMap \in {mergeInto(<<>>, rs, 1)}} :
            TRUE

(***************************************************************************)
(* search/coordinator.ts: parallelSearch with numThreads > 1, and          *)
(* search/worker.ts.                                                       *)
(*                                                                         *)
(* workers[i].status is the position of worker i and of its promise:       *)
(*   "uncreated"  new Worker threw; the promise was resolved at once       *)
(*   "running"    the worker thread is inside engine.search                *)
(*   "posted"     the thread has posted workers[i].message ('result' or    *)
(*                'error'), which the coordinator has not handled yet      *)
(*   "crashed"    the thread died of an uncaught exception; its 'error'    *)
(*                event has not been handled yet                           *)
(*   "succeeded"  the 'result' message was handled, the promise resolved   *)
(*   "failed"     the 'error' message or event was handled, the promise    *)
(*                resolved                                                 *)
(*   "stopped"    worker.terminate() ended the thread before its message   *)
(*                reached the coordinator; the promise is pending          *)
(* workers[i].terminated: worker.terminate() was called on worker i.       *)
(***************************************************************************)
\* the largest number of worker threads
MaxThreads == 3

\* the largest number of progress reports (one per 100 iterations) handled
MaxProgress == 1

NoMessage == [type |-> "none", result |-> SearchResult(<<>>, 0)]

ResultMessage(r) == [type |-> "result", result |-> r]

ErrorMessage == [type |-> "error", result |-> SearchResult(<<>>, 0)]

WorkerRecord(status, message, terminated) ==
    [status |-> status, message |-> message, terminated |-> terminated]

\* Order sets of the coalition Russia (A arm, F bla) in the first scenario.
AttackAnkara ==
    <<MoveOrder(P("arm"), P("ank"), FALSE), SupportOrder(P("bla"), P("arm"), P("ank"))>>

HoldBoth == <<HoldOrder(P("arm")), HoldOrder(P("bla"))>>

\* Results a worker's search can return: ranked by expectedValue, ranks from
\* 1, visits above 0, confidence from determineConfidence.  A rollout that
\* ends with 2 supply centers and 2 units has the value 2002/34034 = 1/17,
\* one that ends with 3 supply centers and 3 units 3003/34034 = 3/34.
WorkerOutputs ==
    { SearchResult(<<RankedMove(1, AttackAnkara, 2002, Rat(1, 17),
                                determineConfidence(600, RatInt(0)))>>, 600),
      SearchResult(<<RankedMove(1, HoldBoth, 2002, Rat(1, 17),
                                determineConfidence(600, RatInt(0)))>>, 600),
      SearchResult(<<RankedMove(1, AttackAnkara, 3002, Rat(5, 68),
                                determineConfidence(300, Rat(1, 100)))>>, 300),
      SearchResult(<<RankedMove(1, AttackAnkara, 3002, Rat(3, 34),
                                determineConfidence(400, RatInt(0))),
                     RankedMove(2, HoldBoth, 2002, Rat(1, 17),
                                determineConfidence(200, RatInt(0)))>>, 600) }

\* the promise of worker i is resolved
resolved(w) == w.status \in {"uncreated", "succeeded", "failed"}

CoordinatorInit ==
    /\ scenario = 1
    /\ state = Scenarios[1].state
    /\ input = Scenarios[1].state
    /\ orders = <<>>
    /\ resolutions = <<>>
    /\ outcome = "none"
    /\ \E threads \in 2..MaxThreads :
         \E created \in SUBSET (0..(threads - 1)) :
            workers = [i \in 0..(threads - 1) |->
                          IF i \in created THEN WorkerRecord("running", NoMessage, FALSE)
                          ELSE WorkerRecord("uncreated", NoMessage, FALSE)]
    /\ results = <<>>
    /\ totalProgress = 0
    /\ signal = [aborted |-> FALSE]
    /\ coordinator = "awaiting"
    /\ mergedResult = SearchResult(<<>>, 0)
    /\ NoEngine

Running(i) == i \in DOMAIN workers /\ workers[i].status = "running" /\ ~workers[i].terminated

\* worker.ts: engine.search reports 100 more iterations; the coordinator's
\* message handler adds them to totalProgress
OnProgress(i) ==
    /\ Running(i)
    /\ totalProgress < 100 * MaxProgress
    /\ totalProgress' = totalProgress + 100
    /\ UNCHANGED <<workers, results, signal, coordinator, mergedResult>>
    /\ UNCHANGED <<adjudicatorVars, engineVars>>

\* worker.ts: engine.search returned, the thread posts its result
WorkerPostsResult(i) ==
    /\ Running(i)
    /\ \E r \in WorkerOutputs :
         workers' = [workers EXCEPT ![i] = WorkerRecord("posted", ResultMessage(r), FALSE)]
    /\ UNCHANGED <<results, totalProgress, signal, coordinator, mergedResult>>
    /\ UNCHANGED <<adjudicatorVars, engineVars>>

\* worker.ts: the try block threw, the thread posts an error message
WorkerPostsError(i) ==
    /\ Running(i)
    /\ workers' = [workers EXCEPT ![i] = WorkerRecord("posted", ErrorMessage, FALSE)]
    /\ UNCHANGED <<results, totalProgress, signal, coordinator, mergedResult>>
    /\ UNCHANGED <<adjudicatorVars, engineVars>>

\* the worker thread dies of an uncaught exception
WorkerCrashes(i) ==
    /\ Running(i)
    /\ workers' = [workers EXCEPT ![i] = WorkerRecord("crashed", NoMessage, FALSE)]
    /\ UNCHANGED <<results, totalProgress, signal, coordinator, mergedResult>>
    /\ UNCHANGED <<adjudicatorVars, engineVars>>

\* the worker thread comes to the end of engine.search in one of the three ways
WorkerFinishes(i) == WorkerPostsResult(i) \/ WorkerPostsError(i) \/ WorkerCrashes(i)

\* the handler with an error message counted as an empty result
receivedCountingErrors(rs, msg) ==
    Append(rs, IF msg.type = "result" THEN msg.result ELSE SearchResult(<<>>, 0))

\* results after the message handler has run on msg
received(rs, msg) == IF msg.type = "result" THEN Append(rs, msg.result) ELSE rs

\* worker.on('message'): a 'result' or an 'error' message
OnMessage(i) ==
    /\ i \in DOMAIN workers
    /\ workers[i].status = "posted"
    /\ results' = received(results, workers[i].message)
    /\ workers' = [workers EXCEPT ![i].status =
                      IF workers[i].message.type = "result" THEN "succeeded" ELSE "failed"]
    /\ UNCHANGED <<totalProgress, signal, coordinator, mergedResult>>
    /\ UNCHANGED <<adjudicatorVars, engineVars>>

\* worker.on('error')
OnError(i) ==
    /\ i \in DOMAIN workers
    /\ workers[i].status = "crashed"
    /\ workers' = [workers EXCEPT ![i].status = "failed"]
    /\ UNCHANGED <<results, totalProgress, signal, coordinator, mergedResult>>
    /\ UNCHANGED <<adjudicatorVars, engineVars>>

\* worker.terminate() on every worker of the list `workers`; a thread inside
\* engine.search is stopped, and a message that has been posted but not
\* handled is delivered or lost with the thread (the workers of `lost`)
terminateAll(ws, lost) ==
    [i \in DOMAIN ws |->
        IF ws[i].status = "uncreated" THEN ws[i]
        ELSE IF ws[i].status = "running" \/ i \in lost
        THEN WorkerRecord("stopped", NoMessage, TRUE)
        ELSE [ws[i] EXCEPT !.terminated = TRUE]]

\* the caller aborts the signal while parallelSearch awaits its workers; the
\* 'abort' listener terminates every worker
Abort ==
    /\ coordinator = "awaiting"
    /\ ~signal.aborted
    /\ signal' = [aborted |-> TRUE]
    /\ \E lost \in SUBSET {i \in DOMAIN workers : workers[i].status = "posted"} :
         workers' = terminateAll(workers, lost)
    /\ UNCHANGED <<results, totalProgress, coordinator, mergedResult>>
    /\ UNCHANGED <<adjudicatorVars, engineVars>>

\* Promise.all(workerPromises) is fulfilled: terminate the workers, merge
\* and return
ReturnMerged ==
    /\ coordinator = "awaiting"
    /\ \A i \in DOMAIN workers : resolved(workers[i])
    /\ workers' = terminateAll(workers, {})
    /\ mergedResult' = mergeResults(results)
    /\ coordinator' = "returned"
    /\ UNCHANGED <<results, totalProgress, signal>>
    /\ UNCHANGED <<adjudicatorVars, engineVars>>

WorkerIds == 0..(MaxThreads - 1)

CoordinatorNext ==
    \/ \E i \in WorkerIds : OnProgress(i)
    \/ \E i \in WorkerIds : WorkerPostsResult(i)
    \/ \E i \in WorkerIds : WorkerPostsError(i)
    \/ \E i \in WorkerIds : WorkerCrashes(i)
    \/ \E i \in WorkerIds : OnMessage(i)
    \/ \E i \in WorkerIds : OnError(i)
    \/ Abort
    \/ ReturnMerged

CoordinatorSpec == CoordinatorInit /\ [][CoordinatorNext]_vars

\* a step of a worker thread to the end of engine.search, or of the
\* coordinator's event loop
CoordinatorProgress ==
    \/ \E i \in WorkerIds : WorkerFinishes(i)
    \/ \E i \in WorkerIds : OnMessage(i)
    \/ \E i \in WorkerIds : OnError(i)
    \/ ReturnMerged

\* Every worker thread that is not terminated comes to the end of
\* engine.search (the search stops at its deadline), the event loop of the
\* coordinator handles every message and event that is pending, and the
\* continuation of a fulfilled Promise.all runs: the program does not stop
\* while one of these steps is possible.  No step is taken twice, so every
\* behavior ends in a state where none of them is possible.
FairCoordinatorSpec ==
    /\ CoordinatorInit
    /\ [][CoordinatorNext]_vars
    /\ WF_vars(CoordinatorProgress)

CoordinatorReturned == coordinator = "returned"

\* C11: when the cancellation signal fires while a multi-worker
\* parallelSearch awaits its workers, every worker is terminated and
\* parallelSearch eventually returns.
C11_CancelledSearchReturns ==
    signal.aborted ~>
        (CoordinatorReturned /\ \A i \in DOMAIN workers :
                                   workers[i].status # "uncreated" => workers[i].terminated)

Succeeded == {i \in DOMAIN workers : workers[i].status = "succeeded"}

Failed == {i \in DOMAIN workers : workers[i].status = "failed"}

\* rs lists the results posted by the workers of S, each once, in some order
ResultsOf(rs, S) ==
    /\ Len(rs) = Cardinality(S)
    /\ \E f \in [1..Len(rs) -> S] :
         /\ \A k, l \in 1..Len(rs) : k # l => f[k] # f[l]
         /\ \A k \in 1..Len(rs) : rs[k] = workers[f[k]].message.result

\* C12: a worker that reports an error or crashes only loses its own
\* contribution: no worker is ever terminated or stopped unless the signal
\* was aborted or parallelSearch has returned, and when parallelSearch has
\* returned every worker has succeeded or failed, `results` holds exactly
\* the results of the workers that succeeded, and the value returned is
\* their merge.
C12_FailuresSkipped ==
    /\ \A i \in DOMAIN workers :
         (workers[i].terminated \/ workers[i].status = "stopped")
            => (signal.aborted \/ CoordinatorReturned)
    /\ CoordinatorReturned =>
         /\ \A i \in DOMAIN workers : resolved(workers[i])
         /\ ResultsOf(results, Succeeded)
         /\ mergedResult = mergeResults(results)

\* one worker failed, two succeeded, nobody cancelled, and the merge of the
\* two results was returned
C12_Witness ==
    /\ CoordinatorReturned
    /\ ~signal.aborted
    /\ Failed # {}
    /\ Cardinality(Succeeded) >= 2
    /\ mergedResult.rankedMoves # <<>>

ArrivalOrders(n) == {f \in [1..n -> 1..n] : \A k, l \in 1..n : k # l => f[k] # f[l]}

Permuted(rs, f) == [k \in 1..Len(rs) |-> rs[f[k]]]

\* C13: the value parallelSearch returns is the merge of the worker results
\* in whatever order they arrived: merging them in any other order gives
\* the same ranked list and the same statistics.
C13_MergeOrderIndependent ==
    CoordinatorReturned =>
        \A f \in ArrivalOrders(Len(results)) :
            mergeResults(Permuted(results, f)) = mergedResult

(***************************************************************************)
(* core/adjudicator.ts: generateLegalOrders, Diplomacy phase               *)
(***************************************************************************)
RECURSIVE Flatten(_)
\* the concatenation of a list of lists
Flatten(lists) == IF lists = <<>> THEN <<>> ELSE Head(lists) \o Flatten(Tail(lists))

\* Array.prototype.map over a sequence
MapSeq(seq, F(_)) == [k \in 1..Len(seq) |-> F(seq[k])]

\* the move orders one adjacent province gives: one per reachable coast for
\* a fleet entering a bicoastal province, none for a province off the map
moveOrdersTo(unit, adj) ==
    IF adj \notin Provinces THEN <<>>
    ELSE IF PROVINCES[adj].type = "bicoastal" /\ unit.type = "Fleet"
    THEN LET Reaches(c) == isAdjacent(unit.location.provinceId, adj, "Fleet",
                                      unit.location.coast, c)
             ToCoast(c) == MoveOrder(unit.location, Loc(adj, c), FALSE)
         IN MapSeq(SelectSeq(coastKeys(adj), Reaches), ToCoast)
    ELSE <<MoveOrder(unit.location, P(adj), FALSE)>>

\* support hold of an adjacent unit, then support of each move of the other
\* unit to a province this unit can reach too
supportOrdersFor(unit, otherUnit, adjProvinces) ==
    LET otherAdj == getAdjacentProvinces(otherUnit.location.provinceId, otherUnit.type,
                                         otherUnit.location.coast)
        Shared(dest) == Includes(adjProvinces, dest) /\ dest # unit.location.provinceId
        ToSupport(dest) == SupportOrder(unit.location, otherUnit.location, P(dest))
    IN (IF Includes(adjProvinces, otherUnit.location.provinceId)
        THEN <<SupportOrder(unit.location, otherUnit.location, otherUnit.location)>>
        ELSE <<>>)
       \o MapSeq(SelectSeq(otherAdj, Shared), ToSupport)

\* a fleet at sea convoys an army on an adjacent coast to each adjacent
\* province that is not sea
convoyOrdersFor(unit, otherUnit, adjProvinces) ==
    IF otherUnit.type # "Army" THEN <<>>
    ELSE IF ~Includes(PROVINCES[unit.location.provinceId].fleetAdj,
                      P(otherUnit.location.provinceId)) THEN <<>>
    ELSE LET Land(dest) == dest \in Provinces /\ PROVINCES[dest].type # "sea"
             ToConvoy(dest) == ConvoyOrder(unit.location, otherUnit.location, P(dest))
         IN MapSeq(SelectSeq(adjProvinces, Land), ToConvoy)

\* the body of the loop over the units: hold, moves, supports, convoys
unitOrders(st, i, adjProvinces) ==
    LET unit == st.units[i]
        atSea == /\ unit.type = "Fleet"
                 /\ unit.location.provinceId \in Provinces
                 /\ PROVINCES[unit.location.provinceId].type = "sea"
    IN <<HoldOrder(unit.location)>>
       \o Flatten([k \in 1..Len(adjProvinces) |-> moveOrdersTo(unit, adjProvinces[k])])
       \o Flatten([j \in 1..Len(st.units) |->
                      IF j = i THEN <<>>
                      ELSE supportOrdersFor(unit, st.units[j], adjProvinces)])
       \o (IF atSea
           THEN Flatten([j \in 1..Len(st.units) |->
                            convoyOrdersFor(unit, st.units[j], adjProvinces)])
           ELSE <<>>)

\* the legal orders of the unit st.units[i]
legalOrdersOfUnit(st, i) ==
    unitOrders(st, i, getAdjacentProvinces(st.units[i].location.provinceId, st.units[i].type,
                                           st.units[i].location.coast))

\* one list of legal orders per unit of the power, in the order of
\* state.units; [[]] for a power without units
generateDiplomacyOrders(st, power) ==
    LET Own(k) == st.units[k].power = power
        OrdersOf(k) == legalOrdersOfUnit(st, k)
    IN IF \A k \in 1..Len(st.units) : ~Own(k) THEN << <<>> >>
       ELSE MapSeq(SelectSeq([k \in 1..Len(st.units) |-> k], Own), OrdersOf)

(***************************************************************************)
(* search/transposition.ts, MCTSEngine: the order sampler.  Scores are     *)
(* kept in tenths (1.5 is 15), weights Math.exp(score) in ten-thousandths. *)
(***************************************************************************)
isCoalitionPower(coalition, power) == Includes(coalition.powers, power)

scorePrimaryAction(st, coalition, powers, order, claimedDests) ==
    IF order.type = "move"
    THEN LET dest == order.destination.provinceId
             owner == st.supplyCenters[dest]
             isSC == owner # "-" \/ dest \in SUPPLY_CENTERS
         IN IF dest \in claimedDests THEN -200
            ELSE IF isSC /\ owner # "-" /\ ~isCoalitionPower(coalition, owner) THEN 50
            ELSE IF isSC /\ owner # "-" /\ isCoalitionPower(coalition, owner)
                    /\ ~Includes(powers, owner) THEN -100
            ELSE IF isSC /\ owner = "-" THEN 30
            ELSE 15
    ELSE LET scOwner == st.supplyCenters[order.unit.provinceId]
         IN IF scOwner # "-" /\ isCoalitionPower(coalition, scOwner) THEN 10 ELSE 5

isOccupiedByEnemy(st, coalition, provinceId, friendlyPowers) ==
    \E k \in 1..Len(st.units) :
        /\ st.units[k].location.provinceId = provinceId
        /\ \A j \in 1..(k - 1) : st.units[j].location.provinceId # provinceId
        /\ ~Includes(friendlyPowers, st.units[k].power)
        /\ ~isCoalitionPower(coalition, st.units[k].power)

\* the provinces an enemy unit occupies or can reach
threatenedProvs(st, coalition, powers) ==
    UNION {LET unit == st.units[k]
               adj == getAdjacentProvinces(unit.location.provinceId, unit.type,
                                           unit.location.coast)
           IN {adj[a] : a \in 1..Len(adj)} \cup {unit.location.provinceId}
           : k \in {u \in 1..Len(st.units) :
                       /\ ~Includes(powers, st.units[u].power)
                       /\ ~isCoalitionPower(coalition, st.units[u].power)}}

scoreCoordinationAction(st, coalition, powers, order, threatened) ==
    IF order.type = "support"
    THEN LET supProv == order.supportedUnit.provinceId
             destProv == order.destination.provinceId
             scOwner == st.supplyCenters[destProv]
             isCoalitionSC == scOwner # "-" /\ isCoalitionPower(coalition, scOwner)
             isThreatened == destProv \in threatened
             isSC == scOwner # "-" \/ destProv \in SUPPLY_CENTERS
         IN IF supProv = destProv
            THEN IF isCoalitionSC /\ isThreatened THEN 50
                 ELSE IF isThreatened THEN 20
                 ELSE IF isCoalitionSC THEN 5
                 ELSE 0
            ELSE IF isSC /\ scOwner # "-" /\ ~isCoalitionPower(coalition, scOwner) THEN 60
                 ELSE IF isThreatened \/ isOccupiedByEnemy(st, coalition, destProv, powers)
                 THEN 40
                 ELSE 20
    ELSE IF order.type = "convoy" THEN 25
    ELSE scorePrimaryAction(st, coalition, powers, order, {})

\* Math.exp(score), in ten-thousandths
expScore(score) ==
    CASE score = 0 -> 10000
      [] score = 5 -> 16487
      [] score = 10 -> 27183
      [] score = 15 -> 44817
      [] score = 20 -> 73891
      [] score = 25 -> 121825
      [] score = 30 -> 200855
      [] score = 40 -> 545982
      [] score = 50 -> 1484132
      [] score = 60 -> 4034288
      [] OTHER -> 0

\* SeededRandom.random() is one of the 2^32 values u / 2^32, so the draw
\* r = random() * totalScore moves in steps of totalScore / 2^32.  A
\* candidate whose weight is at least one step is picked by some draw
\* wherever it stands in the list; drawReach is the largest totalScore, in
\* ten-thousandths, for which Math.exp(score) is at least one step.
drawReach(score) ==
    CASE score = -200 -> 88525
      [] score = -100 -> 1949912135
      [] OTHER -> 2147483647

RECURSIVE totalScore(_, _)
totalScore(scored, k) ==
    IF k > Len(scored) THEN 0 ELSE expScore(scored[k].score) + totalScore(scored, k + 1)

\* softmaxSelect as the set of the indices it can return: the first
\* candidate for the draw 0, any other whose weight is at least one step
\* of the draw.  A candidate lighter than one step is picked only for
\* particular alignments of the steps and is left out.
softmaxSelect(scored) ==
    IF Len(scored) = 1 THEN {1}
    ELSE {k \in 1..Len(scored) : k = 1 \/ totalScore(scored, 1) <= drawReach(scored[k].score)}

\* what one call works on: the state, the coalition of the configuration,
\* the powers sampled, the non-empty per-unit legal order lists of these
\* powers, and the province of each of their units
contextOf(st, coalition, powers, unitLegals) ==
    [state |-> st, coalition |-> coalition, powers |-> powers,
     unitLegals |-> unitLegals,
     unitProvs |-> [i \in 1..Len(unitLegals) |-> unitLegals[i][1].unit.provinceId]]

SamplingContext(st, coalition, powers) ==
    LET NonEmpty(uo) == uo # <<>>
    IN contextOf(st, coalition, powers,
                 SelectSeq(Flatten([k \in 1..Len(powers) |->
                                       generateDiplomacyOrders(st, powers[k])]),
                           NonEmpty))

\* the orders softmaxSelect can return
selectable(scored) == {scored[k].order : k \in softmaxSelect(scored)}

\* Phase 1, one unit: the primary actions softmaxSelect can return
primaryChoices(ctx, i, claimedDests) ==
    LET IsPrimary(o) == o.type = "move" \/ o.type = "hold"
        Scored(o) == [order |-> o,
                      score |-> scorePrimaryAction(ctx.state, ctx.coalition, ctx.powers,
                                                   o, claimedDests)]
    IN IF \A k \in 1..Len(ctx.unitLegals[i]) : ~IsPrimary(ctx.unitLegals[i][k])
       THEN {HoldOrder(ctx.unitLegals[i][1].unit)}
       ELSE selectable(MapSeq(SelectSeq(ctx.unitLegals[i], IsPrimary), Scored))

\* the province a primary action claims
claimOf(ctx, i, selected) ==
    IF selected.type = "move" THEN selected.destination.provinceId ELSE ctx.unitProvs[i]

RECURSIVE assignPrimaryActions(_, _, _, _)
\* Phase 1 from unit i on: every list of primary actions it can build
assignPrimaryActions(ctx, i, primaryActions, claimedDests) ==
    IF i > Len(ctx.unitLegals) THEN {primaryActions}
    ELSE UNION {assignPrimaryActions(ctx, i + 1, Append(primaryActions, selected),
                                     claimedDests \cup {claimOf(ctx, i, selected)})
                : selected \in primaryChoices(ctx, i, claimedDests)}

RECURSIVE resolveSwapsWith(_, _, _, _, _)
\* Phase 1b, inner loop: destI is read once, before the loop
resolveSwapsWith(ctx, primaryActions, i, j, destI) ==
    IF j > Len(primaryActions) THEN primaryActions
    ELSE IF primaryActions[j].type # "move"
    THEN resolveSwapsWith(ctx, primaryActions, i, j + 1, destI)
    ELSE IF destI = ctx.unitProvs[j]
            /\ primaryActions[j].destination.provinceId = ctx.unitProvs[i]
    THEN LET scoreI == scorePrimaryAction(ctx.state, ctx.coalition, ctx.powers,
                                          primaryActions[i], {})
             scoreJ == scorePrimaryAction(ctx.state, ctx.coalition, ctx.powers,
                                          primaryActions[j], {})
             loser == IF scoreI >= scoreJ THEN j ELSE i
         IN resolveSwapsWith(ctx,
                             [primaryActions EXCEPT
                                 ![loser] = HoldOrder(ctx.unitLegals[loser][1].unit)],
                             i, j + 1, destI)
    ELSE resolveSwapsWith(ctx, primaryActions, i, j + 1, destI)

\* the primary actions with Phase 1b left out: every swap stays
keepSwaps(ctx, primaryActions, i) == primaryActions

RECURSIVE resolveSwaps(_, _, _)
\* Phase 1b, outer loop
resolveSwaps(ctx, primaryActions, i) ==
    IF i > Len(primaryActions) THEN primaryActions
    ELSE IF primaryActions[i].type # "move" THEN resolveSwaps(ctx, primaryActions, i + 1)
    ELSE resolveSwaps(ctx,
                      resolveSwapsWith(ctx, primaryActions, i, i + 1,
                                       primaryActions[i].destination.provinceId),
                      i + 1)

\* actionByProv.get(prov): the index of the sampled unit standing in prov,
\* 0 when the map has no such key
actionIndex(ctx, prov) ==
    IF \E k \in 1..Len(ctx.unitProvs) : ctx.unitProvs[k] = prov
    THEN CHOOSE k \in 1..Len(ctx.unitProvs) : ctx.unitProvs[k] = prov
    ELSE 0

\* the filter of Phase 2: a support or convoy that matches the action now
\* recorded for the unit it names
isValidCoordination(ctx, o, actionByProv, upgradedToSupport) ==
    IF o.type = "support"
    THEN LET supProv == o.supportedUnit.provinceId
             destProv == o.destination.provinceId
             k == actionIndex(ctx, supProv)
             enemy == \E u \in 1..Len(ctx.state.units) :
                         /\ ctx.state.units[u].location.provinceId = supProv
                         /\ \A v \in 1..(u - 1) :
                               ctx.state.units[v].location.provinceId # supProv
                         /\ ~Includes(ctx.powers, ctx.state.units[u].power)
                         /\ ~isCoalitionPower(ctx.coalition, ctx.state.units[u].power)
         IN IF k = 0 THEN FALSE
            ELSE IF enemy THEN FALSE
            ELSE IF supProv = destProv
            THEN actionByProv[k].type # "move" /\ supProv \notin upgradedToSupport
            ELSE /\ actionByProv[k].type = "move"
                 /\ actionByProv[k].destination.provinceId = destProv
    ELSE IF o.type = "convoy"
    THEN LET k == actionIndex(ctx, o.convoyedUnit.provinceId)
         IN /\ k # 0
            /\ actionByProv[k].type = "move"
            /\ actionByProv[k].destination.provinceId = o.destination.provinceId
    ELSE FALSE

\* Phase 2, one unit, from the filtered list on: the primary action is
\* kept, or softmaxSelect picks among it and the valid supports and convoys
selectAmong(ctx, primaryAction, validCoordination, threatened) ==
    LET Scored(o) == [order |-> o,
                      score |-> scoreCoordinationAction(ctx.state, ctx.coalition,
                                                        ctx.powers, o, threatened)]
    IN IF validCoordination = <<>> THEN {primaryAction}
       ELSE selectable(MapSeq(<<primaryAction>> \o validCoordination, Scored))

\* Phase 2, one unit: the orders the unit can end with
finalChoices(ctx, i, primaryAction, actionByProv, upgradedToSupport) ==
    LET Valid(o) == isValidCoordination(ctx, o, actionByProv, upgradedToSupport)
    IN selectAmong(ctx, primaryAction, SelectSeq(ctx.unitLegals[i], Valid),
                   threatenedProvs(ctx.state, ctx.coalition, ctx.powers))

RECURSIVE upgradeActions(_, _, _, _, _, _)
\* Phase 2 from unit i on: every list of final orders it can build
upgradeActions(ctx, i, primaryActions, actionByProv, upgradedToSupport, finalOrders) ==
    IF i > Len(ctx.unitLegals) THEN {finalOrders}
    ELSE UNION {LET upgraded == selected.type = "support" \/ selected.type = "convoy"
                IN upgradeActions(ctx, i + 1, primaryActions,
                                  IF upgraded THEN [actionByProv EXCEPT ![i] = selected]
                                              ELSE actionByProv,
                                  IF upgraded
                                  THEN upgradedToSupport \cup {ctx.unitProvs[i]}
                                  ELSE upgradedToSupport,
                                  Append(finalOrders, selected))
                : selected \in finalChoices(ctx, i, primaryActions[i], actionByProv,
                                            upgradedToSupport)}

\* Phase 2 on the primary actions Phase 1b left
upgradedSamples(ctx, assigned, primaryActions) ==
    {[assigned |-> assigned, primaryActions |-> primaryActions, finalOrders |-> finalOrders]
     : finalOrders \in upgradeActions(ctx, 1, primaryActions, primaryActions, {}, <<>>)}

\* Phases 1b and 2 on the primary actions Phase 1 assigned
completeSample(ctx, assigned) == upgradedSamples(ctx, assigned, resolveSwaps(ctx, assigned, 1))

\* sampleCoherentOrders as the set of what one call can compute: the
\* primary actions Phase 1 assigned, those left by Phase 1b, and the order
\* list returned
samplesIn(ctx) ==
    IF ctx.unitLegals = <<>>
    THEN {[assigned |-> <<>>, primaryActions |-> <<>>, finalOrders |-> <<>>]}
    ELSE UNION {completeSample(ctx, assigned)
                : assigned \in assignPrimaryActions(ctx, 1, <<>>, {})}

sampleCoherentOrders(st, coalition, powers) == samplesIn(SamplingContext(st, coalition, powers))

(***************************************************************************)
(* core/fitness.ts                                                         *)
(***************************************************************************)
FITNESS_SC_WEIGHT == 1000

FITNESS_UNIT_WEIGHT == 1

FITNESS_WIN_SCORE == 999999

WIN_SC_THRESHOLD == 18

PowerSet == {ALL_POWERS[k] : k \in 1..Len(ALL_POWERS)}

\* a power with a unit or a supply center
isAlive(st, power) ==
    \/ \E k \in 1..Len(st.units) : st.units[k].power = power
    \/ countPowerSCs(st, power) > 0

countUnits(st, powers) ==
    Cardinality({k \in 1..Len(st.units) : Includes(powers, st.units[k].power)})

RECURSIVE sumPowerSCs(_, _, _)
sumPowerSCs(st, powers, k) ==
    IF k > Len(powers) THEN 0
    ELSE countPowerSCs(st, powers[k]) + sumPowerSCs(st, powers, k + 1)

\* no power dominates
noDominant(st) == {}

\* the powers with WIN_SC_THRESHOLD supply centers or more
dominant(st) == {p \in PowerSet : countPowerSCs(st, p) >= WIN_SC_THRESHOLD}

\* Priority: { action, power, provinceId }
Priority(action, power, provinceId) ==
    [action |-> action, power |-> power, provinceId |-> provinceId]

\* state.units.some(u => u.power === priority.power && ...)
unitInProvince(st, priority) ==
    \E k \in 1..Len(st.units) :
        /\ st.units[k].power = priority.power
        /\ st.units[k].location.provinceId = priority.provinceId

\* the priority adjustments of the score, from priority k on
RECURSIVE priorityAdjustments(_, _, _)
priorityAdjustments(st, priorities, k) ==
    IF k > Len(priorities) THEN 0
    ELSE (IF ~unitInProvince(st, priorities[k]) THEN 0
          ELSE IF priorities[k].action = "deny" THEN 0 - FITNESS_SC_WEIGHT
          ELSE IF priorities[k].action = "allow" THEN FITNESS_SC_WEIGHT
          ELSE 0)
         + priorityAdjustments(st, priorities, k + 1)

\* config.priorities of a search without priorities
NoPriorities == <<>>

\* calculateFitness(state, coalition, priorities): the score and isWin
calculateFitness(st, coalition, priorities) ==
    LET opposing == {p \in PowerSet : ~Includes(coalition.powers, p)}
    IN IF dominant(st) # {}
       THEN [score |-> IF \E p \in dominant(st) : Includes(coalition.powers, p)
                       THEN FITNESS_WIN_SCORE ELSE 0,
             isWin |-> TRUE]
       ELSE IF opposing # {} /\ \A p \in opposing : ~isAlive(st, p)
       THEN [score |-> FITNESS_WIN_SCORE, isWin |-> TRUE]
       ELSE [score |-> sumPowerSCs(st, coalition.powers, 1) * FITNESS_SC_WEIGHT
                          + countUnits(st, coalition.powers) * FITNESS_UNIT_WEIGHT
                          + priorityAdjustments(st, priorities, 1),
             isWin |-> FALSE]

\* checkWinCondition(state).winner !== null
hasWinner(st) ==
    \/ \E p \in PowerSet : countPowerSCs(st, p) >= WIN_SC_THRESHOLD
    \/ Cardinality({p \in PowerSet : isAlive(st, p)}) = 1


(***************************************************************************)
(* Positions the sampler is called on, each with the coalition of the      *)
(* search configuration.  Every unit stands where all its neighbours are   *)
(* provinces of the map above, so its legal orders are those of the full   *)
(* map.                                                                    *)
(***************************************************************************)
Coalition(powers) == [powers |-> powers]

SamplerScenarios ==
    << \* Turkey alone: a fleet and two adjacent armies, a Russian fleet near
       [state |-> GameState(TurnInfo(1901, "Spring", "Diplomacy"),
                            <<MkUnit("Fleet", "Turkey", P("bla")),
                              MkUnit("Army", "Turkey", P("con")),
                              MkUnit("Army", "Turkey", P("ank")),
                              MkUnit("Fleet", "Russia", P("sev"))>>,
                            HomeOwners, <<>>),
        coalition |-> Coalition(<<"Turkey">>)],
       \* Turkey alone: two adjacent armies; Russia holds its centers
       [state |-> GameState(TurnInfo(1901, "Spring", "Diplomacy"),
                            <<MkUnit("Army", "Turkey", P("con")),
                              MkUnit("Army", "Turkey", P("ank"))>>,
                            HomeOwners, <<>>),
        coalition |-> Coalition(<<"Turkey">>)],
       \* Russia and Turkey allied: a Russian fleet next to Ankara, an
       \* Austrian fleet in Rumania
       [state |-> GameState(TurnInfo(1901, "Fall", "Diplomacy"),
                            <<MkUnit("Fleet", "Russia", P("arm")),
                              MkUnit("Fleet", "Austria", P("rum"))>>,
                            HomeOwners, <<>>),
        coalition |-> Coalition(<<"Russia", "Turkey">>)],
       \* a won game: Turkey is the only power left
       [state |-> GameState(TurnInfo(1901, "Spring", "Diplomacy"),
                            <<MkUnit("Army", "Turkey", P("con"))>>,
                            Owners([p \in {"ank", "con", "smy"} |-> "Turkey"]), <<>>),
        coalition |-> Coalition(<<"Turkey">>)] >>

\* what createNode's calls can return in each position
CoalitionSamples ==
    [s \in 1..Len(SamplerScenarios) |->
        sampleCoherentOrders(SamplerScenarios[s].state, SamplerScenarios[s].coalition,
                             SamplerScenarios[s].coalition.powers)]

\* what buildCompleteOrders' call for one opposing power can return
OpponentSamples ==
    [s \in 1..Len(SamplerScenarios) |->
        [power \in {ALL_POWERS[k] : k \in 1..Len(ALL_POWERS)} |->
            sampleCoherentOrders(SamplerScenarios[s].state, SamplerScenarios[s].coalition,
                                 <<power>>)]]

\* no adjudication is in progress
NoAdjudication ==
    /\ scenario = 1
    /\ state = Scenarios[1].state
    /\ input = Scenarios[1].state
    /\ orders = <<>>
    /\ resolutions = <<>>
    /\ outcome = "none"

\* the positions whose nodes get samples: those nobody has won
SampledPositions == {s \in 1..Len(SamplerScenarios) : ~hasWinner(SamplerScenarios[s].state)}

SamplerInit ==
    /\ NoAdjudication
    /\ NoCoordinator
    /\ position \in SampledPositions
    /\ sample = NoSample
    /\ NoSearch
    /\ NoUtil

\* createNode: one call sampleCoherentOrders(state, coalition.powers)
SampleCoalition ==
    /\ \E drawn \in CoalitionSamples[position] :
          sample' = [powers |-> SamplerScenarios[position].coalition.powers,
                     assigned |-> drawn.assigned,
                     primaryActions |-> drawn.primaryActions,
                     finalOrders |-> drawn.finalOrders]
    /\ UNCHANGED position
    /\ UNCHANGED <<adjudicatorVars, coordinatorVars, searchVars, utilVars>>

\* buildCompleteOrders: one call sampleCoherentOrders(state, [power], legal)
SampleOpponent ==
    /\ \E k \in 1..Len(ALL_POWERS) :
          /\ ~isCoalitionPower(SamplerScenarios[position].coalition, ALL_POWERS[k])
          /\ \E drawn \in OpponentSamples[position][ALL_POWERS[k]] :
                sample' = [powers |-> <<ALL_POWERS[k]>>,
                           assigned |-> drawn.assigned,
                           primaryActions |-> drawn.primaryActions,
                           finalOrders |-> drawn.finalOrders]
    /\ UNCHANGED position
    /\ UNCHANGED <<adjudicatorVars, coordinatorVars, searchVars, utilVars>>

SamplerNext == SampleCoalition \/ SampleOpponent

SamplerSpec == SamplerInit /\ [][SamplerNext]_vars

Sampled == sample.powers # <<>>

\* the units the call samples orders for: those of its powers
sampledUnits ==
    {k \in 1..Len(SamplerScenarios[position].state.units) :
        Includes(sample.powers, SamplerScenarios[position].state.units[k].power)}

\* the order the list holds for the unit standing in prov
OrderOfUnit(list, prov) == CHOOSE o \in {list[k] : k \in 1..Len(list)} : o.unit.provinceId = prov

HasOrderOfUnit(list, prov) == \E k \in 1..Len(list) : list[k].unit.provinceId = prov

\* a support or convoy of the list refers to an order of `actions`
RefersTo(o, actions) ==
    LET named == IF o.type = "support" THEN o.supportedUnit.provinceId
                 ELSE o.convoyedUnit.provinceId
        isSupportHold == o.type = "support" /\ named = o.destination.provinceId
    IN /\ HasOrderOfUnit(actions, named)
       /\ IF isSupportHold THEN OrderOfUnit(actions, named).type # "move"
          ELSE /\ OrderOfUnit(actions, named).type = "move"
               /\ OrderOfUnit(actions, named).destination.provinceId = o.destination.provinceId

OnePerUnit(list) ==
    /\ Len(list) = Cardinality(sampledUnits)
    /\ \A u \in sampledUnits :
          Cardinality({k \in 1..Len(list) :
                          list[k].unit = SamplerScenarios[position].state.units[u].location}) = 1

\* C16: every order list returned by sampleCoherentOrders holds exactly one
\* order per unit, and every Support or Convoy in it refers to an order of
\* the same list: a support-to-move or a convoy names a unit whose order in
\* the list is a Move to that destination, a support-to-hold names a unit
\* whose order in the list is not a Move.
C16_SampleCoherent ==
    Sampled =>
        /\ OnePerUnit(sample.finalOrders)
        /\ \A k \in 1..Len(sample.finalOrders) :
              sample.finalOrders[k].type \in {"support", "convoy"}
                 => RefersTo(sample.finalOrders[k], sample.finalOrders)

Moves(list) == {k \in 1..Len(list) : list[k].type = "move"}

\* C17: in every joint action one call of sampleCoherentOrders produces for
\* the coalition, no two Move orders have the same destination region.
C17_NoSharedDestination ==
    Sampled /\ sample.powers = SamplerScenarios[position].coalition.powers =>
        \A k, l \in Moves(sample.finalOrders) :
            k # l => sample.finalOrders[k].destination.provinceId
                        # sample.finalOrders[l].destination.provinceId

\* two Move orders of the list exchange the regions of their units
HasSwap(list) ==
    \E k, l \in Moves(list) :
        /\ k # l
        /\ list[k].destination.provinceId = list[l].unit.provinceId
        /\ list[l].destination.provinceId = list[k].unit.provinceId

\* C20: in every joint action one call of sampleCoherentOrders produces, no
\* two Move orders form a position swap.
C20_NoSwap == Sampled => ~HasSwap(sample.finalOrders)

\* Phase 1 assigned a swap, and the call returned
C20_Witness == Sampled /\ HasSwap(sample.assigned)
(***************************************************************************)
(* search/transposition.ts, MCTSEngine: the tree search.  The searches of  *)
(* the model are configured with maxDepth 0, so that a rollout evaluates   *)
(* the state of the node it starts from.                                   *)
(***************************************************************************)
\* the number of order sets createNode samples for a node
NUM_SAMPLES == 30

MAX_NORMAL_SCORE == 34034

\* onProgress is called every PROGRESS_EVERY iterations
PROGRESS_EVERY == 100

\* the most children a search of the model adds to its root
MaxExpansions == 1

\* the most iterations a search of the model runs
MaxSearchIterations == 100

normalizeScore(score) ==
    IF score >= MAX_NORMAL_SCORE THEN RatInt(1) ELSE Rat(score, MAX_NORMAL_SCORE)

\* an MCTSNode: the root keeps the number of its untried order sets
MCTSNode(st, ords, opponentOrders, untried) ==
    [state |-> st, orders |-> ords, opponentOrders |-> opponentOrders,
     visits |-> 0, totalValue |-> RatInt(0), squaredValueSum |-> RatInt(0),
     untriedOrders |-> untried, isTerminal |-> hasWinner(st)]

createNode(st, ords, opponentOrders) ==
    MCTSNode(st, ords, opponentOrders,
             IF ~hasWinner(st) /\ st.turn.phase = "Diplomacy" THEN NUM_SAMPLES ELSE 0)

\* the orders of the list given by units of the power
ordersOfPower(st, ords, power) ==
    LET Own(o) == \E k \in 1..Len(st.units) :
                     /\ st.units[k].location.provinceId = o.unit.provinceId
                     /\ st.units[k].power = power
    IN SelectSeq(ords, Own)

\* buildCompleteOrders, first loop: the coalition's orders power by power
coalitionEntries(st, coalition, coalitionOrders) ==
    LET Ordered(entry) == entry.orders # <<>>
    IN SelectSeq([k \in 1..Len(coalition.powers) |->
                     [power |-> coalition.powers[k],
                      orders |-> ordersOfPower(st, coalitionOrders, coalition.powers[k])]],
                 Ordered)

RECURSIVE opponentEntries(_, _)
\* buildCompleteOrders, second loop from ALL_POWERS[k] on: every choice of
\* one sample per opposing power
opponentEntries(s, k) ==
    IF k > Len(ALL_POWERS) THEN {<<>>}
    ELSE IF isCoalitionPower(SamplerScenarios[s].coalition, ALL_POWERS[k])
    THEN opponentEntries(s, k + 1)
    ELSE {<<[power |-> ALL_POWERS[k], orders |-> drawn.finalOrders]>> \o rest
          : drawn \in OpponentSamples[s][ALL_POWERS[k]], rest \in opponentEntries(s, k + 1)}

\* the Map<Power, Order[]> as the list resolve takes
submitted(entries) ==
    Flatten([k \in 1..Len(entries) |->
                [j \in 1..Len(entries[k].orders) |-> O(entries[k].power, entries[k].orders[j])]])

\* expand: the child an untried order set and the opponents' samples give
expandedChild(s, coalitionOrders, opponents) ==
    LET st == SamplerScenarios[s].state
        allOrders == coalitionEntries(st, SamplerScenarios[s].coalition, coalitionOrders)
                        \o opponents
    IN createNode(resolve(st, submitted(allOrders)).result.newState,
                  coalitionOrders,
                  Flatten([k \in 1..Len(opponents) |-> opponents[k].orders]))

\* the children one expansion of the root can add
Expansions ==
    [s \in 1..Len(SamplerScenarios) |->
        {expandedChild(s, drawn.finalOrders, opponents)
         : drawn \in CoalitionSamples[s], opponents \in opponentEntries(s, 1)}]

\* simulate with maxDepth 0
simulate(node, coalition) ==
    normalizeScore(calculateFitness(node.state, coalition, NoPriorities).score)

\* a visit of the node that adds no value
countedOnly(node, value) == [node EXCEPT !.visits = @ + 1]

\* backpropagate, one node
visited(node, value) ==
    [node EXCEPT !.visits = @ + 1,
                 !.totalValue = RatAdd(@, value),
                 !.squaredValueSum = RatAdd(@, RatMul(value, value))]

meanValue(child) == RatDiv(child.totalValue, RatInt(child.visits))

\* child j, of mean value meanJ, is sorted before child i, of mean value
\* meanI: the sort is stable
sortsBefore(meanJ, meanI, j, i) == RatLess(meanI, meanJ) \/ (meanJ = meanI /\ j < i)

\* the place of child i after the filter and the sort of extractResults
resultPlace(children, i) ==
    1 + Cardinality({j \in 1..Len(children) :
            /\ children[j].visits > 0
            /\ sortsBefore(meanValue(children[j]), meanValue(children[i]), j, i)})

\* one entry of extractResults.  Every child of the model is visited once,
\* so its variance is the 0 of `child.visits > 1 ? ... : 0`.
rankedChild(child, rank, coalition) ==
    ("opponentOrders" :> child.opponentOrders)
       @@ RankedMove(rank, child.orders,
                     calculateFitness(child.state, coalition, NoPriorities).score,
                     meanValue(child), determineConfidence(child.visits, RatInt(0)))

extractResults(children, coalition) ==
    LET sorted == {i \in 1..Len(children) : children[i].visits > 0}
        count == IF Cardinality(sorted) < 3 THEN Cardinality(sorted) ELSE 3
    IN [k \in 1..count |->
           rankedChild(children[CHOOSE i \in sorted : resultPlace(children, i) = k],
                       k, coalition)]

\* the two searches of one program: same state, same configuration, same
\* seed.  search is synchronous, so the second starts after the first
\* returned.
Runs == 1..2

NoResult == SearchResult(<<>>, 0)

\* an engine constructed and not yet searching; node 0 is the root, node k
\* the k-th child of the root
ReadyEngine ==
    [pc |-> "ready", iterations |-> 0,
     root |-> MCTSNode(SamplerScenarios[1].state, <<>>, <<>>, 0),
     children |-> <<>>, node |-> 0, value |-> RatInt(0), result |-> NoResult]

\* the positions searched: two Turkish armies, the alliance, the won game
SearchPositions == 2..4

SearchInit ==
    /\ NoAdjudication
    /\ NoCoordinator
    /\ position \in SearchPositions
    /\ sample = NoSample
    /\ engines = [r \in Runs |-> ReadyEngine]
    /\ draws = <<>>
    /\ NoUtil

searchFrame ==
    /\ UNCHANGED <<adjudicatorVars, samplerVars, utilVars>>
    /\ UNCHANGED <<workers, results, totalProgress, coordinator, mergedResult>>

\* this.config.signal?.aborted
cancelledIgnored(sig) == FALSE

cancelled(sig) == sig.aborted

\* search up to the loop: the root node is created
Search(r) ==
    /\ engines[r].pc = "ready"
    /\ \A q \in Runs : q < r => engines[q].pc = "returned"
    /\ engines' = [engines EXCEPT
                      ![r].root = createNode(SamplerScenarios[position].state, <<>>, <<>>),
                      ![r].pc = "top"]
    /\ UNCHANGED <<draws, signal>>
    /\ searchFrame

\* the iteration the bounds of the model leave room for
WithinBounds(e) ==
    /\ e.iterations < MaxSearchIterations
    /\ (~e.root.isTerminal /\ e.root.visits > 0) => Len(e.children) < MaxExpansions

\* the loop test passes, the signal is not aborted, and select returns the
\* root: a root with untried order sets or without children is where the
\* descent stops, and the root of the model always is one or the other
Select(r) ==
    /\ engines[r].pc = "top"
    /\ ~cancelled(signal)
    /\ WithinBounds(engines[r])
    /\ engines[r].root.untriedOrders > 0 \/ engines[r].children = <<>>
    /\ engines' = [engines EXCEPT ![r].node = 0, ![r].pc = "selected"]
    /\ UNCHANGED <<draws, signal>>
    /\ searchFrame

\* the k-th expansion of a seed draws what it drew in the earlier search
drawnChild(k, child) == k <= Len(draws) => child = draws[k]

\* if (!node.isTerminal && node.visits > 0) node = this.expand(node)
Expand(r) ==
    /\ engines[r].pc = "selected"
    /\ IF ~engines[r].root.isTerminal /\ engines[r].root.visits > 0
       THEN LET k == Len(engines[r].children) + 1
            IN \E child \in Expansions[position] :
                  /\ drawnChild(k, child)
                  /\ engines' = [engines EXCEPT
                                    ![r].root.untriedOrders = @ - 1,
                                    ![r].children = Append(@, child),
                                    ![r].node = k,
                                    ![r].pc = "expanded"]
                  /\ draws' = IF k <= Len(draws) THEN draws ELSE Append(draws, child)
       ELSE /\ engines' = [engines EXCEPT ![r].pc = "expanded"]
            /\ UNCHANGED draws
    /\ UNCHANGED signal
    /\ searchFrame

nodeOf(e) == IF e.node = 0 THEN e.root ELSE e.children[e.node]

Simulate(r) ==
    /\ engines[r].pc = "expanded"
    /\ engines' = [engines EXCEPT
                      ![r].value = simulate(nodeOf(engines[r]),
                                            SamplerScenarios[position].coalition),
                      ![r].pc = "simulated"]
    /\ UNCHANGED <<draws, signal>>
    /\ searchFrame

\* backpropagate from the node to the root, then iterations++
backpropagated(e) ==
    [e EXCEPT !.root = visited(@, e.value),
              !.children = [k \in 1..Len(@) |->
                               IF k = e.node THEN visited(@[k], e.value) ELSE @[k]],
              !.iterations = @ + 1,
              !.pc = IF (e.iterations + 1) % PROGRESS_EVERY = 0 THEN "progress" ELSE "top"]

Backpropagate(r) ==
    /\ engines[r].pc = "simulated"
    /\ engines' = [engines EXCEPT ![r] = backpropagated(@)]
    /\ UNCHANGED <<draws, signal>>
    /\ searchFrame

\* onProgress(iterations): the caller's callback, which may abort the signal
ReportProgress(r) ==
    /\ engines[r].pc = "progress"
    /\ engines' = [engines EXCEPT ![r].pc = "top"]
    /\ signal' \in {signal, [aborted |-> TRUE]}
    /\ UNCHANGED draws
    /\ searchFrame

\* the deadline has passed or the signal is aborted: the loop ends and the
\* children of the root are ranked
SearchReturns(r) ==
    /\ engines[r].pc = "top"
    /\ engines' = [engines EXCEPT
                      ![r].result =
                          SearchResult(extractResults(engines[r].children,
                                                      SamplerScenarios[position].coalition),
                                       engines[r].iterations),
                      ![r].pc = "returned"]
    /\ UNCHANGED <<draws, signal>>
    /\ searchFrame

\* the caller aborts the signal while no search is running
AbortOutsideSearch ==
    /\ ~signal.aborted
    /\ \A r \in Runs : engines[r].pc \in {"ready", "returned"}
    /\ signal' = [aborted |-> TRUE]
    /\ UNCHANGED <<engines, draws>>
    /\ searchFrame

SearchNext ==
    \/ AbortOutsideSearch
    \/ \E r \in Runs :
          \/ Search(r)
          \/ Select(r)
          \/ Expand(r)
          \/ Simulate(r)
          \/ Backpropagate(r)
          \/ ReportProgress(r)
          \/ SearchReturns(r)

SearchSpec == SearchInit /\ [][SearchNext]_vars

HasReturned(r) == engines[r].pc = "returned"

\* C14: two single-thread searches started with the same state, the same
\* configuration and the same seed return identical ranked outputs.
C14_SeededSearchesAgree ==
    (HasReturned(1) /\ HasReturned(2) /\ ~signal.aborted)
        => engines[1].result.rankedMoves = engines[2].result.rankedMoves

searchedState == SamplerScenarios[position].state

searchedCoalition == SamplerScenarios[position].coalition

\* the tree holds whole iterations only: every iteration counted has
\* visited the root, and every iteration after the first has added one
\* child of a searchable root and visited it
WholeIterations(e) ==
    /\ e.root.visits = e.iterations
    /\ Len(e.children) = IF e.root.isTerminal \/ e.iterations = 0 THEN 0 ELSE e.iterations - 1
    /\ \A k \in 1..Len(e.children) : e.children[k].visits = 1
    /\ e.root.untriedOrders + Len(e.children) \in {0, NUM_SAMPLES}

BetweenIterations(e) == e.pc \in {"top", "progress", "returned"}

\* C15: search checks the deadline and the cancellation signal before each
\* iteration: once the signal is set no further iteration starts (none at
\* all if it is set before the search begins), every iteration that starts
\* runs selection, expansion, rollout and backpropagation to completion,
\* and the search returns the ranking of the tree built so far.  With the
\* signal set, a search that has not begun or stands at the top of its
\* loop starts no iteration: it can only begin, or return with the
\* iterations it has; the search returns from the top of the loop only;
\* between iterations the tree holds whole iterations; and the result is
\* the ranking of the children of the root with the iterations counted.
C15_ChecksBeforeEachIteration ==
    /\ [][\A r \in Runs :
            /\ (signal.aborted /\ engines[r].pc \in {"ready", "top"})
                  => /\ signal'.aborted
                     /\ engines'[r].pc \in {"ready", "top", "returned"}
                     /\ engines'[r].iterations = engines[r].iterations
            /\ (engines[r].pc # "returned" /\ engines'[r].pc = "returned")
                  => engines[r].pc = "top"]_vars
    /\ [](\A r \in Runs :
            /\ engines[r].pc = "ready" => engines[r].iterations = 0
            /\ BetweenIterations(engines[r]) => WholeIterations(engines[r])
            /\ HasReturned(r)
                  => engines[r].result
                        = SearchResult(extractResults(engines[r].children, searchedCoalition),
                                       engines[r].iterations))

\* the callback of the hundredth iteration aborted the signal, and the
\* search returned with these hundred iterations
C15_Witness ==
    /\ HasReturned(1)
    /\ signal.aborted
    /\ engines[1].result.totalSimulations = PROGRESS_EVERY

\* the power of the unit standing in the province, "-" without one
powerAt(st, prov) ==
    IF \E k \in 1..Len(st.units) : st.units[k].location.provinceId = prov
    THEN st.units[CHOOSE k \in 1..Len(st.units) : st.units[k].location.provinceId = prov].power
    ELSE "-"

\* a Move of the order set enters a region where another unit of the same
\* power has a Hold order in the set
SelfBlocking(ords, st) ==
    \E k, l \in 1..Len(ords) :
        /\ ords[k].type = "move"
        /\ ords[l].type = "hold"
        /\ ords[l].unit.provinceId = ords[k].destination.provinceId
        /\ powerAt(st, ords[k].unit.provinceId) = powerAt(st, ords[l].unit.provinceId)

RankedMoves(r) == {engines[r].result.rankedMoves[k] : k \in 1..Len(engines[r].result.rankedMoves)}

\* C18: no order set suggested by the search contains a Move into a region
\* where another unit of the same power has a Hold order in the same set.
C18_NoSelfBlockingSuggested ==
    \A r \in Runs :
        HasReturned(r) =>
            \A m \in RankedMoves(r) :
                /\ ~SelfBlocking(m.orders, searchedState)
                /\ ~SelfBlocking(m.opponentOrders, searchedState)

\* a Move of the order set by a unit of one coalition power enters a supply
\* center owned by another power of the coalition
AttacksPartner(ords, st, coalition) ==
    \E k \in 1..Len(ords) :
        /\ ords[k].type = "move"
        /\ LET mover == powerAt(st, ords[k].unit.provinceId)
               owner == st.supplyCenters[ords[k].destination.provinceId]
           IN /\ mover # "-" /\ owner # "-"
              /\ isCoalitionPower(coalition, mover)
              /\ isCoalitionPower(coalition, owner)
              /\ mover # owner

\* C19: no ranked move returned by the search contains a Move by a unit of
\* one coalition power into a supply center owned by a different power of
\* the same coalition.
C19_NoPartnerCenterAttacked ==
    \A r \in Runs :
        HasReturned(r) =>
            \A m \in RankedMoves(r) : ~AttacksPartner(m.orders, searchedState, searchedCoalition)

(***************************************************************************)
(* search/transposition.ts: TranspositionTable.  The Map is the sequence   *)
(* of its entries in insertion order, which is the order of Map.keys();    *)
(* set on a key that is present keeps the place of the key.                *)
(***************************************************************************)
\* the largest capacity a table of the model is created with
MaxCapacity == 4

\* the most visits an entry of the model accumulates
MaxVisits == 3

\* the state hashes of the model: one more than the largest capacity
Hashes == 1..(MaxCapacity + 1)

\* TranspositionEntry; bestOrders is never set
TranspositionEntry(hash, depth, visits, totalValue) ==
    [hash |-> hash, depth |-> depth, visits |-> visits, totalValue |-> totalValue]

\* new TranspositionTable(maxSize)
TranspositionTable(maxSize) == [maxSize |-> maxSize, entries |-> <<>>]

\* this.table.get(hash), as an index; 0 for undefined
tableIndex(entries, hash) ==
    IF \E k \in 1..Len(entries) : entries[k].hash = hash
    THEN CHOOSE k \in 1..Len(entries) : entries[k].hash = hash
    ELSE 0

\* the eviction of put: at capacity, delete the first floor(size / 4) keys
evictOldest(entries, maxSize) ==
    IF Len(entries) >= maxSize
    THEN SubSeq(entries, (Len(entries) \div 4) + 1, Len(entries))
    ELSE entries

\* the entry put stores for a hash that is present
mergedEntry(existing, entry) ==
    IF entry.visits > existing.visits
    THEN entry
    ELSE [existing EXCEPT !.visits = existing.visits + entry.visits,
                          !.totalValue = existing.totalValue + entry.totalValue]

\* this.table.set(entry.hash, ...) after the eviction
stored(entries, entry) ==
    IF tableIndex(entries, entry.hash) # 0
    THEN [entries EXCEPT ![tableIndex(entries, entry.hash)] = mergedEntry(@, entry)]
    ELSE Append(entries, entry)

\* TranspositionTable.put(entry)
put(t, entry) == [t EXCEPT !.entries = stored(evictOldest(t.entries, t.maxSize), entry)]

\* TranspositionTable.merge(other): put of every entry of the other table
RECURSIVE merge(_, _, _)
merge(t, other, k) ==
    IF k > Len(other.entries) THEN t ELSE merge(put(t, other.entries[k]), other, k + 1)

\* TranspositionTable.deserialize(data): a table of the default capacity
\* whose entries are set without put
deserialize(data) == [maxSize |-> 1000000, entries |-> data]

\* the entries the callers of the model put
EntryInputs ==
    {TranspositionEntry(h, 0, 1, 1) : h \in Hashes} \cup {TranspositionEntry(1, 1, 2, 1)}

\* the tables received from workers that the model merges
OtherTables ==
    {deserialize(<<TranspositionEntry(1, 0, 1, 0), TranspositionEntry(2, 1, 1, 1)>>),
     deserialize(<<TranspositionEntry(MaxCapacity + 1, 0, 1, 1)>>)}

\* no function of the utilities has been called
NoCall == [name |-> "none"]

TableInit ==
    /\ NoAdjudication
    /\ NoCoordinator
    /\ position = 1 /\ sample = NoSample /\ NoSearch
    /\ call = NoCall
    /\ \E maxSize \in 1..MaxCapacity : table = TranspositionTable(maxSize)

tableFrame == UNCHANGED <<adjudicatorVars, coordinatorVars, samplerVars, searchVars, call>>

\* no entry of the table has more than MaxVisits visits
WithinVisits(t) == \A k \in 1..Len(t.entries) : t.entries[k].visits <= MaxVisits

\* one call of put(entry)
Put ==
    /\ \E entry \in EntryInputs :
          /\ WithinVisits(put(table, entry))
          /\ table' = put(table, entry)
    /\ tableFrame

\* one call of merge(other)
Merge ==
    /\ \E other \in OtherTables :
          /\ WithinVisits(merge(table, other, 1))
          /\ table' = merge(table, other, 1)
    /\ tableFrame

TableNext == Put \/ Merge

TableSpec == TableInit /\ [][TableNext]_vars

\* C21: the transposition table is bounded: after any sequence of put and
\* merge calls on a table created with a positive capacity maxSize, the
\* number of stored entries never exceeds maxSize.
C21_TableBounded == Len(table.entries) <= table.maxSize

(***************************************************************************)
(* calculateFitness as a function of its arguments.  `call` holds the      *)
(* arguments of one call and, after the call, its result.  The supply      *)
(* centers are the 34 of the standard map; Turkey owns the first centers   *)
(* of the list and Russia the next ones.                                   *)
(***************************************************************************)
AllCenters ==
    <<"ank", "con", "smy", "sev", "mos", "stp", "war", "bul", "rum", "gre", "ser", "bud",
      "tri", "vie", "ven", "rom", "nap", "tun", "mun", "ber", "kie", "hol", "bel", "den",
      "swe", "nwy", "par", "bre", "mar", "spa", "por", "lon", "lvp", "edi">>

\* supplyCenters with the first n centers Turkish and the next m Russian
Owned(n, m) ==
    [p \in {AllCenters[k] : k \in 1..Len(AllCenters)} |->
        LET k == CHOOSE j \in 1..Len(AllCenters) : AllCenters[j] = p
        IN IF k <= n THEN "Turkey" ELSE IF k <= n + m THEN "Russia" ELSE "-"]

\* the numbers of centers a power owns in the states of the model
CenterCounts == {0, 3, WIN_SC_THRESHOLD - 1, WIN_SC_THRESHOLD, WIN_SC_THRESHOLD + 1}

\* the unit lists of the states of the model
FitnessUnits ==
    {<<>>,
     <<MkUnit("Army", "Turkey", P("con"))>>,
     <<MkUnit("Army", "Turkey", P("con")), MkUnit("Fleet", "Russia", P("sev"))>>,
     <<MkUnit("Army", "Turkey", P("con")), MkUnit("Army", "Turkey", P("ank")),
       MkUnit("Fleet", "Russia", P("sev")), MkUnit("Army", "Austria", P("bud"))>>}

\* the numbers of Turkish and of Russian centers
CenterSplits == {nm \in CenterCounts \X CenterCounts : nm[1] + nm[2] <= Len(AllCenters)}

FitnessStates ==
    {GameState(TurnInfo(1901, "Fall", "Diplomacy"), units, Owned(nm[1], nm[2]), <<>>) :
        units \in FitnessUnits, nm \in CenterSplits}

\* coalitions as parseCoalitions builds them from "Turkey", "Russia",
\* "Russia+Turkey", "England+France" and "Turkey+Turkey"
FitnessCoalitions ==
    {Coalition(<<"Turkey">>), Coalition(<<"Russia">>), Coalition(<<"Russia", "Turkey">>),
     Coalition(<<"England", "France">>), Coalition(<<"Turkey", "Turkey">>)}

\* the priorities parsePriority returns for the entries of the model
PriorityInputs ==
    {Priority("deny", "Russia", "sev"), Priority("allow", "Turkey", "con"),
     Priority("deny", "Turkey", "smy"), Priority("allow", "Russia", "con")}

\* the largest number of priorities of one call
MaxPriorities == 2

\* the lists of at most MaxPriorities priorities
PriorityLists == UNION {[1..n -> PriorityInputs] : n \in 0..MaxPriorities}

FitnessInit ==
    /\ NoAdjudication
    /\ NoCoordinator
    /\ position = 1 /\ sample = NoSample /\ NoSearch
    /\ table = [maxSize |-> 0, entries |-> <<>>]
    /\ \E st \in FitnessStates, coalition \in FitnessCoalitions, priorities \in PriorityLists :
          call = [name |-> "arguments", state |-> st, coalition |-> coalition,
                  priorities |-> priorities]

utilFrame == UNCHANGED <<adjudicatorVars, coordinatorVars, samplerVars, searchVars, table>>

\* one call of calculateFitness(state, coalition, priorities)
CalculateFitness ==
    /\ call.name = "arguments"
    /\ call' = [name |-> "calculateFitness", state |-> call.state,
                coalition |-> call.coalition, priorities |-> call.priorities,
                result |-> calculateFitness(call.state, call.coalition, call.priorities)]
    /\ utilFrame

FitnessNext == CalculateFitness

FitnessSpec == FitnessInit /\ [][FitnessNext]_vars

\* calculateFitness has returned
Calculated == call.name = "calculateFitness"

\* the supply centers of the state that the power owns
CentersOf(st, power) == {p \in DOMAIN st.supplyCenters : st.supplyCenters[p] = power}

\* the powers that own 18 supply centers or more
Dominating(st) == {p \in PowerSet : Cardinality(CentersOf(st, p)) >= 18}

InCoalition(coalition, power) ==
    \E k \in 1..Len(coalition.powers) : coalition.powers[k] = power

\* C22: whenever a single power owns 18 or more supply centers,
\* calculateFitness reports a terminal win: the score is 999999 if the
\* coalition contains that power and 0 otherwise, regardless of unit counts
\* and priorities.
C22_DominationIsTerminal ==
    Calculated =>
        \A p \in Dominating(call.state) :
            /\ call.result.isWin
            /\ call.result.score = IF InCoalition(call.coalition, p) THEN 999999 ELSE 0

\* a power outside the coalition owns 18 centers or more, with units on
\* the board and a priority that applies: the score is 0
C22_Witness ==
    /\ Calculated
    /\ Dominating(call.state) # {}
    /\ call.state.units # <<>>
    /\ \E k \in 1..Len(call.priorities) : unitInProvince(call.state, call.priorities[k])
    /\ call.result.score = 0

\* the priorities of the list with the action whose power has a unit in
\* the named region
Applying(st, priorities, action) ==
    {k \in 1..Len(priorities) :
        /\ priorities[k].action = action
        /\ \E u \in 1..Len(st.units) :
              /\ st.units[u].power = priorities[k].power
              /\ st.units[u].location.provinceId = priorities[k].provinceId}

\* the supply centers owned by powers of the coalition
CoalitionCenters(st, coalition) ==
    UNION {CentersOf(st, p) : p \in {q \in PowerSet : InCoalition(coalition, q)}}

\* the units of powers of the coalition
CoalitionUnits(st, coalition) ==
    {u \in 1..Len(st.units) : InCoalition(coalition, st.units[u].power)}

\* C23: for a state that is not a terminal win, calculateFitness returns
\* 1000 times the number of supply centers owned by coalition powers plus
\* the number of coalition units, plus 1000 for each allow priority and
\* minus 1000 for each deny priority whose power has a unit in the named
\* region; a priority whose power has no unit there leaves the score
\* unchanged.
C23_FitnessScore ==
    (Calculated /\ ~call.result.isWin) =>
        call.result.score
            = 1000 * Cardinality(CoalitionCenters(call.state, call.coalition))
              + Cardinality(CoalitionUnits(call.state, call.coalition))
              + 1000 * Cardinality(Applying(call.state, call.priorities, "allow"))
              - 1000 * Cardinality(Applying(call.state, call.priorities, "deny"))

(***************************************************************************)
(* search/zobrist.ts.  A key of ZOBRIST_KEYS is named by its string; the   *)
(* values are successive states of a 64-bit linear congruential generator  *)
(* whose multiplier is 1 modulo 4 and whose increment is odd, so it has    *)
(* full period and the keys are pairwise distinct.  A hash is kept as the  *)
(* set of the keys that were XORed into it an odd number of times.         *)
(***************************************************************************)
UNIT_TYPES == {"Army", "Fleet"}

COASTS == {NullCoast, "nc", "sc", "ec", "wc"}

\* the first and the last year generateZobristKeys makes turn keys for
FIRST_KEY_YEAR == 1901

LAST_KEY_YEAR == 2000

\* `unit_${unit.type}_${unit.power}_${unit.location.provinceId}_${unit.location.coast}`
unitKey(unit) ==
    "unit_" \o unit.type \o "_" \o unit.power \o "_" \o unit.location.provinceId
            \o "_" \o unit.location.coast

\* `sc_${province}_${power}`
scKey(province, power) == "sc_" \o province \o "_" \o power

\* `turn_${state.turn.year}_${state.turn.season}_${state.turn.phase}`
turnKey(turn) == "turn_" \o ToString(turn.year) \o "_" \o turn.season \o "_" \o turn.phase

\* the keys of the map generateZobristKeys returns
generateZobristKeys ==
    {unitKey(MkUnit(t, pw, Loc(p, c))) : t \in UNIT_TYPES, pw \in PowerSet, p \in Provinces, c \in COASTS}
    \cup {scKey(p, pw) : p \in Provinces, pw \in PowerSet}
    \cup {turnKey(TurnInfo(y, s, ph)) : y \in FIRST_KEY_YEAR..LAST_KEY_YEAR,
                                        s \in {"Spring", "Fall"},
                                        ph \in {"Diplomacy", "Retreat", "Build"}}

ZOBRIST_KEYS == generateZobristKeys

\* hash ^= val, when ZOBRIST_KEYS.get(key) is defined
xorKey(hash, key) ==
    IF key \in ZOBRIST_KEYS
    THEN IF key \in hash THEN hash \ {key} ELSE hash \cup {key}
    ELSE hash

\* the loop over state.units, from unit k on
RECURSIVE hashUnits(_, _, _)
hashUnits(hash, units, k) ==
    IF k > Len(units) THEN hash ELSE hashUnits(xorKey(hash, unitKey(units[k])), units, k + 1)

\* the loop over state.supplyCenters; centers is the iteration order of the Map
RECURSIVE hashCenters(_, _, _, _)
hashCenters(hash, supplyCenters, centers, k) ==
    IF k > Len(centers)
    THEN hash
    ELSE hashCenters(xorKey(hash, scKey(centers[k], supplyCenters[centers[k]])),
                     supplyCenters, centers, k + 1)

\* zobristHash(state)
zobristHash(st, centers) ==
    xorKey(hashCenters(hashUnits({}, st.units, 1), st.supplyCenters, centers, 1),
           turnKey(st.turn))

\* the unit lists, ownership maps and turns the model hashes
ZobristUnits ==
    {<<MkUnit("Army", "Turkey", P("con")), MkUnit("Fleet", "Turkey", P("ank")),
       MkUnit("Fleet", "Russia", Loc("bul", "ec"))>>,
     <<MkUnit("Army", "Russia", P("sev")), MkUnit("Army", "Turkey", P("smy"))>>,
     <<MkUnit("Fleet", "Russia", P("bla"))>>}

\* ownership maps with the order in which their entries were set
ZobristOwnerships ==
    {[owners |-> Owners([p \in {"ank", "con", "sev"} |-> PROVINCES[p].homeCenter]),
      centers |-> <<"ank", "con", "sev">>],
     [owners |-> Owners([p \in {"ank", "con", "sev", "bul"} |-> "Russia"]),
      centers |-> <<"sev", "bul", "ank", "con">>]}

ZobristTurns ==
    {TurnInfo(y, s, ph) : y \in {FIRST_KEY_YEAR, LAST_KEY_YEAR, LAST_KEY_YEAR + 1, LAST_KEY_YEAR + 2},
                          s \in {"Spring", "Fall"}, ph \in {"Diplomacy", "Build"}}

\* the locations a unit of the model is moved to
ZobristLocations(unit) ==
    IF unit.type = "Army"
    THEN {P("con"), P("ank"), P("smy"), P("bul"), P("arm")}
    ELSE {P("ank"), P("bla"), P("con"), Loc("bul", "ec"), Loc("bul", "sc")}

\* the state hashed is the first one of the behaviour
NoChange == [change |-> "none", hash |-> {}]

\* the arguments of a call: the state, the order of its ownership map, and
\* how the state was obtained from the state hashed before
HashArguments(st, centers, last) ==
    [name |-> "arguments", state |-> st, centers |-> centers, hash |-> {}, last |-> last]

\* the orders of a list
Orderings(seq) ==
    {[k \in 1..Len(seq) |-> seq[f[k]]] : f \in Permutations(1..Len(seq))}

ZobristInit ==
    /\ NoAdjudication
    /\ NoCoordinator
    /\ position = 1 /\ sample = NoSample /\ NoSearch
    /\ table = [maxSize |-> 0, entries |-> <<>>]
    /\ \E units \in ZobristUnits, ownership \in ZobristOwnerships, turn \in ZobristTurns :
          call = HashArguments(GameState(turn, units, ownership.owners, <<>>),
                               ownership.centers, NoChange)

\* zobristHash(state)
ZobristHash ==
    /\ call.name = "arguments"
    /\ call' = [call EXCEPT !.name = "zobristHash",
                            !.hash = zobristHash(call.state, call.centers)]
    /\ utilFrame

\* the same state with its unit list and its ownership map in another order
Reorder ==
    /\ call.name = "zobristHash"
    /\ call.last = NoChange
    /\ \E units \in Orderings(call.state.units), centers \in Orderings(call.centers) :
          /\ <<units, centers>> # <<call.state.units, call.centers>>
          /\ call' = HashArguments([call.state EXCEPT !.units = units], centers,
                                   [change |-> "order", hash |-> call.hash])
    /\ utilFrame

\* the state with one unit in another place
MoveUnit ==
    /\ call.name = "zobristHash"
    /\ call.last = NoChange
    /\ \E k \in 1..Len(call.state.units) :
          \E l \in ZobristLocations(call.state.units[k]) :
             /\ \A j \in 1..Len(call.state.units) :
                   call.state.units[j].location.provinceId # l.provinceId
             /\ call' = HashArguments([call.state EXCEPT !.units[k].location = l], call.centers,
                                      [change |-> "unit", hash |-> call.hash])
    /\ utilFrame

\* the state at another turn
ChangeTurn ==
    /\ call.name = "zobristHash"
    /\ call.last = NoChange
    /\ \E turn \in ZobristTurns \ {call.state.turn} :
          call' = HashArguments([call.state EXCEPT !.turn = turn], call.centers,
                                [change |-> "turn", hash |-> call.hash])
    /\ utilFrame

ZobristNext == ZobristHash \/ Reorder \/ MoveUnit \/ ChangeTurn

ZobristSpec == ZobristInit /\ [][ZobristNext]_vars

\* C24: zobristHash depends only on the content of the state: the same
\* units, ownership and turn hash equally whatever the order of the unit
\* list and of the ownership map, and a state that differs in the position
\* of a single unit or in the turn has another hash.
C24_HashIsStructural ==
    call.name = "zobristHash" =>
        /\ call.last.change = "order" => call.hash = call.last.hash
        /\ call.last.change \in {"unit", "turn"} => call.hash # call.last.hash

(***************************************************************************)
(* Movement adjudications.  A position with the orders its powers may      *)
(* submit, power by power; one adjudication receives at most MaxOrders of  *)
(* them, no two for the same unit.                                         *)
(***************************************************************************)
MovementScenarios ==
    << \* two attacks on Ankara, one of them by a Turkish army
       [state |-> GameState(TurnInfo(1901, "Spring", "Diplomacy"),
                            <<MkUnit("Army", "Turkey", P("ank")),
                              MkUnit("Army", "Turkey", P("con")),
                              MkUnit("Army", "Russia", P("arm")),
                              MkUnit("Army", "Russia", P("smy")),
                              MkUnit("Fleet", "Russia", P("bla"))>>,
                            HomeOwners, <<>>),
        pool |-> <<O("Turkey", MoveOrder(P("con"), P("ank"), FALSE)),
                   O("Turkey", HoldOrder(P("ank"))),
                   O("Russia", SupportOrder(P("bla"), P("con"), P("ank"))),
                   O("Russia", MoveOrder(P("arm"), P("ank"), FALSE)),
                   O("Russia", SupportOrder(P("smy"), P("arm"), P("ank"))),
                   O("Russia", SupportOrder(P("bla"), P("arm"), P("ank")))>>],
       \* Ankara and Armenia ordered into each other, with supports and a
       \* second army ordered into Armenia
       [state |-> GameState(TurnInfo(1901, "Spring", "Diplomacy"),
                            <<MkUnit("Army", "Turkey", P("ank")),
                              MkUnit("Army", "Turkey", P("smy")),
                              MkUnit("Army", "Russia", P("arm")),
                              MkUnit("Fleet", "Russia", P("bla")),
                              MkUnit("Army", "Russia", P("sev"))>>,
                            HomeOwners, <<>>),
        pool |-> <<O("Turkey", MoveOrder(P("ank"), P("arm"), FALSE)),
                   O("Turkey", SupportOrder(P("smy"), P("ank"), P("arm"))),
                   O("Russia", MoveOrder(P("arm"), P("ank"), FALSE)),
                   O("Russia", SupportOrder(P("bla"), P("arm"), P("ank"))),
                   O("Russia", MoveOrder(P("sev"), P("arm"), FALSE)),
                   O("Russia", SupportOrder(P("bla"), P("ank"), P("arm")))>>],
       \* attacks on the supporting fleet in the Black Sea, from Ankara and
       \* from Constantinople
       [state |-> GameState(TurnInfo(1901, "Spring", "Diplomacy"),
                            <<MkUnit("Fleet", "Turkey", P("ank")),
                              MkUnit("Fleet", "Turkey", P("con")),
                              MkUnit("Army", "Russia", P("arm")),
                              MkUnit("Fleet", "Russia", P("bla"))>>,
                            HomeOwners, <<>>),
        pool |-> <<O("Turkey", MoveOrder(P("ank"), P("bla"), FALSE)),
                   O("Turkey", MoveOrder(P("con"), P("bla"), FALSE)),
                   O("Turkey", MoveOrder(P("con"), P("rum"), FALSE)),
                   O("Russia", MoveOrder(P("arm"), P("ank"), FALSE)),
                   O("Russia", SupportOrder(P("bla"), P("arm"), P("ank"))),
                   O("Russia", SupportOrder(P("bla"), P("ank"), P("ank")))>>],
       \* a supported attack on Ankara, whose army holds, supports or has a
       \* void order, and is supported to hold
       [state |-> GameState(TurnInfo(1901, "Spring", "Diplomacy"),
                            <<MkUnit("Army", "Turkey", P("ank")),
                              MkUnit("Army", "Turkey", P("con")),
                              MkUnit("Army", "Russia", P("arm")),
                              MkUnit("Fleet", "Russia", P("bla"))>>,
                            HomeOwners, <<>>),
        pool |-> <<O("Turkey", SupportOrder(P("ank"), P("con"), P("con"))),
                   O("Turkey", HoldOrder(P("ank"))),
                   O("Turkey", MoveOrder(P("ank"), P("sev"), FALSE)),
                   O("Turkey", SupportOrder(P("con"), P("ank"), P("ank"))),
                   O("Russia", MoveOrder(P("arm"), P("ank"), FALSE)),
                   O("Russia", SupportOrder(P("bla"), P("arm"), P("ank")))>>],
       \* a supported move into Constantinople, whose Turkish army leaves
       \* or stays, against a Russian move from Bulgaria
       [state |-> GameState(TurnInfo(1901, "Spring", "Diplomacy"),
                            <<MkUnit("Army", "Turkey", P("con")),
                              MkUnit("Army", "Turkey", P("ank")),
                              MkUnit("Fleet", "Turkey", P("bla")),
                              MkUnit("Army", "Russia", P("bul"))>>,
                            HomeOwners, <<>>),
        pool |-> <<O("Turkey", MoveOrder(P("con"), P("smy"), FALSE)),
                   O("Turkey", HoldOrder(P("con"))),
                   O("Turkey", MoveOrder(P("ank"), P("con"), FALSE)),
                   O("Turkey", SupportOrder(P("bla"), P("ank"), P("con"))),
                   O("Russia", MoveOrder(P("bul"), P("con"), FALSE)),
                   O("Russia", HoldOrder(P("bul")))>>],
       \* an army in Sevastopol convoyed across the Black Sea to Ankara or
       \* to Bulgaria; the fleet in the Aegean touches neither end
       [state |-> GameState(TurnInfo(1901, "Spring", "Diplomacy"),
                            <<MkUnit("Army", "Russia", P("sev")),
                              MkUnit("Fleet", "Russia", P("bla")),
                              MkUnit("Fleet", "Turkey", P("aeg"))>>,
                            HomeOwners, <<>>),
        pool |-> <<O("Russia", MoveOrder(P("sev"), P("ank"), FALSE)),
                   O("Russia", MoveOrder(P("sev"), P("bul"), FALSE)),
                   O("Russia", MoveOrder(P("sev"), P("bul"), TRUE)),
                   O("Russia", ConvoyOrder(P("bla"), P("sev"), P("ank"))),
                   O("Russia", ConvoyOrder(P("bla"), P("sev"), P("bul"))),
                   O("Russia", HoldOrder(P("bla"))),
                   O("Turkey", ConvoyOrder(P("aeg"), P("sev"), P("ank"))),
                   O("Turkey", ConvoyOrder(P("aeg"), P("sev"), P("bul")))>>],
       \* the convoy from Sevastopol to Ankara while the convoying fleet in
       \* the Black Sea is attacked from Constantinople
       [state |-> GameState(TurnInfo(1901, "Spring", "Diplomacy"),
                            <<MkUnit("Army", "Russia", P("sev")),
                              MkUnit("Fleet", "Russia", P("bla")),
                              MkUnit("Fleet", "Turkey", P("con")),
                              MkUnit("Fleet", "Turkey", P("rum"))>>,
                            HomeOwners, <<>>),
        pool |-> <<O("Russia", MoveOrder(P("sev"), P("ank"), FALSE)),
                   O("Russia", ConvoyOrder(P("bla"), P("sev"), P("ank"))),
                   O("Turkey", MoveOrder(P("con"), P("bla"), FALSE)),
                   O("Turkey", SupportOrder(P("rum"), P("con"), P("bla")))>>],
       \* the rotation Ankara -> Constantinople -> Smyrna -> Ankara, with an
       \* army in Armenia that attacks Ankara or supports the Move into it
       [state |-> GameState(TurnInfo(1901, "Spring", "Diplomacy"),
                            <<MkUnit("Army", "Turkey", P("ank")),
                              MkUnit("Army", "Russia", P("con")),
                              MkUnit("Army", "Turkey", P("smy")),
                              MkUnit("Army", "Russia", P("arm"))>>,
                            HomeOwners, <<>>),
        pool |-> <<O("Turkey", MoveOrder(P("ank"), P("con"), FALSE)),
                   O("Russia", MoveOrder(P("con"), P("smy"), FALSE)),
                   O("Turkey", MoveOrder(P("smy"), P("ank"), FALSE)),
                   O("Russia", MoveOrder(P("arm"), P("ank"), FALSE)),
                   O("Russia", SupportOrder(P("arm"), P("smy"), P("ank")))>>],
       \* illegal orders for the army in Smyrna, for the fleet in the
       \* Eastern Mediterranean and for the empty Ankara
       [state |-> GameState(TurnInfo(1901, "Spring", "Diplomacy"),
                            <<MkUnit("Army", "Turkey", P("smy")),
                              MkUnit("Fleet", "Turkey", P("eas")),
                              MkUnit("Army", "Russia", P("sev"))>>,
                            HomeOwners, <<>>),
        pool |-> <<O("Turkey", MoveOrder(P("smy"), P("aeg"), FALSE)),
                   O("Turkey", MoveOrder(P("smy"), P("smy"), FALSE)),
                   O("Turkey", MoveOrder(P("smy"), P("sev"), FALSE)),
                   O("Russia", MoveOrder(P("smy"), P("ank"), FALSE)),
                   O("Turkey", ConvoyOrder(P("smy"), P("sev"), P("ank"))),
                   O("Turkey", ConvoyOrder(P("eas"), P("smy"), P("aeg"))),
                   O("Turkey", MoveOrder(P("eas"), P("smy"), TRUE)),
                   O("Turkey", SupportOrder(P("eas"), P("smy"), P("ank"))),
                   O("Turkey", MoveOrder(P("ank"), P("con"), FALSE))>>],
       \* illegal orders for fleets on the coast
       [state |-> GameState(TurnInfo(1901, "Spring", "Diplomacy"),
                            <<MkUnit("Fleet", "Turkey", P("ank")),
                              MkUnit("Fleet", "Turkey", P("con")),
                              MkUnit("Fleet", "Russia", P("sev")),
                              MkUnit("Army", "Turkey", P("smy"))>>,
                            HomeOwners, <<>>),
        pool |-> <<O("Turkey", MoveOrder(P("ank"), P("smy"), FALSE)),
                   O("Russia", MoveOrder(P("sev"), P("ukr"), FALSE)),
                   O("Turkey", ConvoyOrder(P("con"), P("smy"), P("sev"))),
                   O("Turkey", SupportOrder(P("con"), P("smy"), P("con"))),
                   O("Turkey", SupportOrder(P("con"), P("con"), P("con"))),
                   O("Turkey", MoveOrder(P("smy"), P("con"), FALSE))>>],
       \* a Russian order for the Turkish army in Constantinople and a
       \* Turkish order for the empty Ankara, with a supported attack on
       \* Constantinople and a Move into Ankara
       [state |-> GameState(TurnInfo(1901, "Spring", "Diplomacy"),
                            <<MkUnit("Army", "Turkey", P("con")),
                              MkUnit("Army", "Russia", P("bul")),
                              MkUnit("Fleet", "Russia", P("bla"))>>,
                            HomeOwners, <<>>),
        pool |-> <<O("Russia", HoldOrder(P("con"))),
                   O("Russia", MoveOrder(P("bul"), P("con"), FALSE)),
                   O("Russia", SupportOrder(P("bla"), P("bul"), P("con"))),
                   O("Turkey", HoldOrder(P("ank"))),
                   O("Turkey", MoveOrder(P("con"), P("ank"), FALSE))>>]
    >>

\* the order lists of OrderInputs with at most one order for a unit
MovementInputs(pool) ==
    {ords \in OrderInputs(pool) :
        \A i, j \in 1..Len(ords) :
            i # j => getOrderLocation(ords[i].order).provinceId
                        # getOrderLocation(ords[j].order).provinceId}

\* one of the positions, before resolve is called
MovementInit ==
    /\ scenario \in 1..Len(MovementScenarios)
    /\ state = MovementScenarios[scenario].state
    /\ input = MovementScenarios[scenario].state
    /\ orders = <<>>
    /\ resolutions = <<>>
    /\ outcome = "none"
    /\ NoCoordinator
    /\ NoEngine

\* one call of Adjudicator.resolve(state, orders) in the Diplomacy phase
AdjudicateMovement ==
    /\ outcome = "none"
    /\ state.turn.phase = "Diplomacy"
    /\ \E ords \in MovementInputs(MovementScenarios[scenario].pool) : Resolve(ords)

MovementNext == AdjudicateMovement

MovementSpec == MovementInit /\ [][MovementNext]_vars

(***************************************************************************)
(* Properties of one Movement adjudication.  sst is the list of resolution *)
(* states when the strengths have been calculated (steps 1 to 4); its      *)
(* entries are in the order of `resolutions`.                              *)
(***************************************************************************)
\* resolve has returned
Adjudicated == outcome = "returned"

\* a Move that is neither void nor without a convoy route
ValidMove(sst, k) == sst[k].order.type = "move" /\ ~sst[k].resolved

\* the valid Moves ordered into region d
MovesTo(sst, d) ==
    {k \in 1..Len(sst) : ValidMove(sst, k) /\ sst[k].order.destination.provinceId = d}

\* the orders of units that stay in region d: the order is the unit's own
\* and is not a Move that succeeds
StayingIn(sst, d) ==
    {k \in 1..Len(sst) :
        /\ getOrderLocation(sst[k].order).provinceId = d
        /\ \E u \in 1..Len(input.units) :
              /\ input.units[u].location.provinceId = d
              /\ input.units[u].power = sst[k].power
        /\ ~(sst[k].order.type = "move" /\ resolutions[k].status = "succeeds")}

\* the supports to hold for the unit in region d that are neither void nor cut
HoldSupports(sst, d) ==
    {s \in 1..Len(sst) :
        /\ sst[s].order.type = "support"
        /\ sst[s].status # "void"
        /\ ~sst[s].supportCut
        /\ sst[s].order.supportedUnit.provinceId = d
        /\ sst[s].order.destination.provinceId = d}

\* the strength a staying unit defends with, at least: 1 plus the supports
\* to hold for a unit ordered to hold, 1 for any other unit
DefenceOf(sst, k) ==
    IF sst[k].order.type = "hold" /\ sst[k].status # "void"
    THEN 1 + Cardinality(HoldSupports(sst, getOrderLocation(sst[k].order).provinceId))
    ELSE 1

\* the Move k was beaten head to head by the unit of the region d it was
\* ordered into
BeatenFrom(sst, k, d) ==
    \E u \in 1..Len(state.dislodgedUnits) :
        /\ state.dislodgedUnits[u].unit.location.provinceId = sst[k].order.unit.provinceId
        /\ state.dislodgedUnits[u].attackerFrom.provinceId = d

\* the Moves that contest region d: a Move beaten head to head from d
\* prevents no other Move into d
Contesting(sst, d) == {k \in MovesTo(sst, d) : ~BeatenFrom(sst, k, d)}

\* the highest strength among the Moves into d is shared
SharedTop(sst, d) ==
    \E i, k \in Contesting(sst, d) :
        /\ i # k
        /\ sst[i].attackStrength = sst[k].attackStrength
        /\ \A j \in Contesting(sst, d) : sst[j].attackStrength <= sst[i].attackStrength

\* every successful Move is strictly the strongest, and Moves that share
\* the highest strength bounce
MovesWinStrictly(sst) ==
    \A i \in 1..Len(sst) :
        ValidMove(sst, i) =>
            LET d == sst[i].order.destination.provinceId
            IN /\ resolutions[i].status = "succeeds" =>
                     /\ \A k \in Contesting(sst, d) \ {i} :
                           sst[i].attackStrength > sst[k].attackStrength
                     /\ \A k \in StayingIn(sst, d) :
                           sst[i].attackStrength > DefenceOf(sst, k)
               /\ SharedTop(sst, d) /\ i \in Contesting(sst, d) =>
                     resolutions[i].status = "bounced"

\* C25: in a Movement adjudication a Move into a region succeeds only if
\* its strength strictly exceeds the hold strength of any unit that stays
\* in the region and the strength of every other Move ordered into the
\* region; when the highest strength among the Moves into a region is
\* shared, every Move into the region bounces.
C25_StrictlyStrongestWins == Adjudicated => MovesWinStrictly(withStrengths(input, orders))

\* the power of the unit in region d before the adjudication; "-" for none
PowerAt(d) ==
    IF \E u \in 1..Len(input.units) : input.units[u].location.provinceId = d
    THEN input.units[CHOOSE u \in 1..Len(input.units) :
                        input.units[u].location.provinceId = d].power
    ELSE "-"

\* the supports for the Move i that are neither void nor cut, without those
\* given by the power whose unit is in the destination
SupportsOf(sst, i) ==
    {s \in 1..Len(sst) :
        /\ sst[s].order.type = "support"
        /\ sst[s].status # "void"
        /\ ~sst[s].supportCut
        /\ sst[s].order.supportedUnit.provinceId = sst[i].order.unit.provinceId
        /\ sst[s].order.destination.provinceId = sst[i].order.destination.provinceId
        /\ sst[s].power # PowerAt(sst[i].order.destination.provinceId)}

\* 1 plus the uncut valid supports of the Move i
MoveStrength(sst, i) == 1 + Cardinality(SupportsOf(sst, i))

\* the Moves i and k are ordered into each other's regions
HeadToHead(sst, i, k) ==
    /\ i # k
    /\ ValidMove(sst, i)
    /\ ValidMove(sst, k)
    /\ sst[i].order.destination.provinceId = sst[k].order.unit.provinceId
    /\ sst[k].order.destination.provinceId = sst[i].order.unit.provinceId

\* the unit of the order k is dislodged, with the origin of the Move i
\* recorded as the origin of the attacker
DislodgedBy(sst, k, i) ==
    \E u \in 1..Len(state.dislodgedUnits) :
        /\ state.dislodgedUnits[u].unit.location.provinceId = sst[k].order.unit.provinceId
        /\ state.dislodgedUnits[u].attackerFrom = sst[i].order.unit

\* every head-to-head battle is decided by the strengths
HeadToHeadDecided(sst) ==
    \A i, k \in 1..Len(sst) :
        HeadToHead(sst, i, k) =>
            /\ MoveStrength(sst, i) > MoveStrength(sst, k) =>
                  /\ resolutions[i].status = "succeeds"
                  /\ resolutions[k].status = "bounced"
                  /\ DislodgedBy(sst, k, i)
            /\ MoveStrength(sst, i) = MoveStrength(sst, k) =>
                  /\ resolutions[i].status = "bounced"
                  /\ resolutions[k].status = "bounced"
                  /\ ~DislodgedBy(sst, k, i)
                  /\ ~DislodgedBy(sst, i, k)

\* C26: when two units are ordered to move into each other's regions, the
\* one whose strength (1 plus its uncut valid supports) is strictly greater
\* succeeds and the other is dislodged, with the origin of the winner
\* recorded as the origin of the attacker; when the strengths are equal
\* both Moves bounce and neither unit is dislodged by the other.
C26_HeadToHead == Adjudicated => HeadToHeadDecided(withStrengths(input, orders))

\* a supported Move from Armenia beats the Move from Ankara head to head
\* and dislodges the army there
HeadToHeadWon(sst) ==
    \E i, k \in 1..Len(sst) :
        /\ HeadToHead(sst, i, k)
        /\ MoveStrength(sst, i) = 2
        /\ MoveStrength(sst, k) = 1
        /\ resolutions[i].status = "succeeds"
        /\ DislodgedBy(sst, k, i)

C26_Witness == Adjudicated /\ HeadToHeadWon(withStrengths(input, orders))

\* the Move m cuts the support s: it targets the region of the supporting
\* unit and does not come from the region the support directs force into,
\* unless the support is for a hold in the region the Move comes from
Cuts(sst, m, s) ==
    /\ ValidMove(sst, m)
    /\ sst[m].order.destination.provinceId = sst[s].order.unit.provinceId
    /\ \/ sst[m].order.unit.provinceId # sst[s].order.destination.provinceId
       \/ sst[s].order.supportedUnit.provinceId = sst[s].order.destination.provinceId

\* the supports for the order k that are not void and that no Move cuts
UncutSupports(sst, k) ==
    {s \in 1..Len(sst) :
        /\ sst[s].order.type = "support"
        /\ sst[s].status # "void"
        /\ ~\E m \in 1..Len(sst) : Cuts(sst, m, s)
        /\ sst[s].order.supportedUnit.provinceId = getOrderLocation(sst[k].order).provinceId
        /\ sst[s].order.destination.provinceId =
              IF sst[k].order.type = "move"
              THEN sst[k].order.destination.provinceId
              ELSE getOrderLocation(sst[k].order).provinceId}

\* the supports that are cut are those a Move cuts, and no strength
\* counts a cut support
CutExactly(sst) ==
    /\ \A s \in 1..Len(sst) :
          sst[s].order.type = "support" /\ sst[s].status # "void" =>
              /\ sst[s].supportCut <=> \E m \in 1..Len(sst) : Cuts(sst, m, s)
              /\ sst[s].supportCut <=> sst[s].status = "cut"
    /\ \A k \in 1..Len(sst) :
          /\ sst[k].attackStrength <= 1 + Cardinality(UncutSupports(sst, k))
          /\ sst[k].holdStrength <= 1 + Cardinality(UncutSupports(sst, k))

CutFromElsewhere(sst) ==
    \E s, m, e \in 1..Len(sst) :
        /\ sst[s].order.type = "support"
        /\ sst[s].supportCut
        /\ Cuts(sst, m, s)
        /\ ValidMove(sst, e)
        /\ sst[e].order.destination.provinceId = sst[s].order.unit.provinceId
        /\ ~Cuts(sst, e, s)
        /\ \E k \in 1..Len(sst) :
              /\ ValidMove(sst, k)
              /\ sst[k].order.unit.provinceId = sst[s].order.supportedUnit.provinceId
              /\ sst[k].attackStrength = 1

Stationary(sst, k) ==
    /\ sst[k].power = PowerAt(getOrderLocation(sst[k].order).provinceId)
    /\ \/ sst[k].order.type \in {"hold", "support", "convoy"}
       \/ sst[k].status = "void"

\* every unit that stays in place defends with 1 plus its supports to hold
StationaryDefence(sst) ==
    \A k \in 1..Len(sst) :
        Stationary(sst, k) =>
            holdStr(sst, sst[k])
                = 1 + Cardinality(HoldSupports(sst, getOrderLocation(sst[k].order).provinceId))

\* C28: the hold strength with which a region is defended is 1 plus the
\* number of uncut supports to hold for the unit there, for every unit that
\* stays in place: a unit ordered to hold, a unit ordered to support or to
\* convoy, and a unit whose own order is void.
C28_HoldStrength == Adjudicated => StationaryDefence(withStrengths(input, orders))

\* the unit in region d stays there: d has a unit, and no Move of that
\* unit succeeds
UnitStays(sst, d) ==
    /\ PowerAt(d) # "-"
    /\ ~\E k \in 1..Len(sst) :
           /\ sst[k].order.type = "move"
           /\ sst[k].order.unit.provinceId = d
           /\ sst[k].power = PowerAt(d)
           /\ resolutions[k].status = "succeeds"

\* the supports for the Move i that are neither void nor cut, without those
\* of a power whose own unit the Move would dislodge
CountedSupports(sst, i) ==
    {s \in 1..Len(sst) :
        /\ sst[s].order.type = "support"
        /\ sst[s].status # "void"
        /\ ~sst[s].supportCut
        /\ sst[s].order.supportedUnit.provinceId = sst[i].order.unit.provinceId
        /\ sst[s].order.destination.provinceId = sst[i].order.destination.provinceId
        /\ ~(/\ UnitStays(sst, sst[i].order.destination.provinceId)
             /\ PowerAt(sst[i].order.destination.provinceId) = sst[s].power)}

\* the strength of every Move is 1 plus its counted supports
SupportsCounted(sst) ==
    \A i \in 1..Len(sst) :
        ValidMove(sst, i) => sst[i].attackStrength = 1 + Cardinality(CountedSupports(sst, i))

\* C29: an uncut valid support for a Move is left out of the strength of
\* the Move exactly when the Move would dislodge a unit owned by the
\* supporting power; every other uncut valid support for a Move adds 1 to
\* its strength.
C29_SupportAgainstOwnUnit == Adjudicated => SupportsCounted(withStrengths(input, orders))

\* the Move i is the own order of an army for a region its army cannot
\* reach by land
NeedsConvoy(cst, i) ==
    /\ cst[i].order.type = "move"
    /\ \E u \in 1..Len(input.units) :
          /\ input.units[u].location.provinceId = cst[i].order.unit.provinceId
          /\ input.units[u].power = cst[i].power
          /\ input.units[u].type = "Army"
    /\ cst[i].order.unit.provinceId \in Provinces
    /\ ~Includes(PROVINCES[cst[i].order.unit.provinceId].armyAdj,
                 cst[i].order.destination.provinceId)

\* the sea region c borders the region p, on any of its coasts
SeaBorders(c, p) ==
    \E e \in 1..Len(PROVINCES[c].fleetAdj) : PROVINCES[c].fleetAdj[e].provinceId = p

\* the sea regions with a fleet that has a non-void order to convoy the
\* army in `from` to `to`
ConvoyingFleets(cst, from, to) ==
    {getOrderLocation(cst[k].order).provinceId : k \in
        {j \in 1..Len(cst) :
            /\ cst[j].order.type = "convoy"
            /\ cst[j].status # "void"
            /\ cst[j].order.convoyedUnit.provinceId = from
            /\ cst[j].order.destination.provinceId = to
            /\ getOrderLocation(cst[j].order).provinceId \in Provinces
            /\ PROVINCES[getOrderLocation(cst[j].order).provinceId].type = "sea"}}

\* the fleets linked to the fleets in `reached` through bordering sea regions
RECURSIVE Linked(_, _)
Linked(fleets, reached) ==
    LET more == {c \in fleets \ reached : \E r \in reached : SeaBorders(r, c)}
    IN IF more = {} THEN reached ELSE Linked(fleets, reached \cup more)

\* a chain of convoying fleets from the source to the destination of the Move i
ConvoyChain(cst, i) ==
    LET from == cst[i].order.unit.provinceId
        to == cst[i].order.destination.provinceId
        fleets == ConvoyingFleets(cst, from, to)
    IN \E c \in Linked(fleets, {f \in fleets : SeaBorders(f, from)}) : SeaBorders(c, to)

\* the army of the Move i is where it was
ArmyStays(cst, i) ==
    \/ \E u \in 1..Len(state.units) :
          /\ state.units[u].location.provinceId = cst[i].order.unit.provinceId
          /\ state.units[u].power = cst[i].power
    \/ \E u \in 1..Len(state.dislodgedUnits) :
          state.dislodgedUnits[u].unit.location.provinceId = cst[i].order.unit.provinceId

\* cst is the list of resolution states after the convoys were resolved
\* (steps 1 and 2): a Move that needs a convoy has a route exactly when
\* there is a chain
ConvoyedByChain(cst) ==
    \A i \in 1..Len(cst) :
        NeedsConvoy(cst, i) =>
            /\ ~cst[i].resolved <=> ConvoyChain(cst, i)
            /\ ~ConvoyChain(cst, i) =>
                  /\ resolutions[i].status \in {"fails", "void"}
                  /\ ArmyStays(cst, i)

\* C30: a Move of an army that needs a convoy is carried by convoy exactly
\* when there is a chain of fleets in sea regions, each with a non-void
\* order to convoy that source and destination, the first adjacent to the
\* source and the last adjacent to the destination; when there is no such
\* chain the Move fails for lack of a convoy route and the army stays
\* where it is.
C30_ConvoyChain == Adjudicated => ConvoyedByChain(withConvoys(input, orders))

\* the convoying fleets of the Move i that are not dislodged
StandingFleets(cst, i) ==
    {c \in ConvoyingFleets(cst, cst[i].order.unit.provinceId,
                           cst[i].order.destination.provinceId) :
        ~\E u \in 1..Len(state.dislodgedUnits) :
            state.dislodgedUnits[u].unit.location.provinceId = c}

\* a convoy route of the Move i on which no fleet is dislodged
StandingRoute(cst, i) ==
    LET fleets == StandingFleets(cst, i)
    IN \E c \in Linked(fleets, {f \in fleets : SeaBorders(f, cst[i].order.unit.provinceId)}) :
           SeaBorders(c, cst[i].order.destination.provinceId)

\* no Move that needs a convoy succeeds without a route of standing fleets
DisruptedConvoysFail(cst) ==
    \A i \in 1..Len(cst) :
        NeedsConvoy(cst, i) /\ ~StandingRoute(cst, i) => resolutions[i].status # "succeeds"

\* C31: a convoy is disrupted when a fleet on its route is dislodged: a
\* convoyed Move whose every convoy route contains a fleet that is
\* dislodged in the same turn does not succeed.
C31_ConvoyDisrupted == Adjudicated => DisruptedConvoysFail(withConvoys(input, orders))

\* the regions the units of the Moves K stand in
OriginsOf(sst, K) == {sst[k].order.unit.provinceId : k \in K}

\* the Moves of K reached from the Move k by going to the Move of the unit
\* in the destination, in at most n steps
RECURSIVE Following(_, _, _, _)
Following(sst, K, k, n) ==
    IF n = 0 THEN {k}
    ELSE {k} \cup UNION {Following(sst, K, j, n - 1) :
                            j \in {x \in K : sst[x].order.unit.provinceId
                                                = sst[k].order.destination.provinceId}}

\* K is a closed cycle of three or more valid Moves: every Move goes into
\* the region of another unit of K and the walk from any Move passes all
ClosedCycle(sst, K) ==
    /\ Cardinality(K) >= 3
    /\ \A k \in K : ValidMove(sst, k)
    /\ Cardinality(OriginsOf(sst, K)) = Cardinality(K)
    /\ \A k \in K : Following(sst, K, k, Cardinality(K)) = K

\* no unit outside the cycle K moves into a region of K
Undisturbed(sst, K) ==
    ~\E o \in 1..Len(sst) :
        /\ o \notin K
        /\ ValidMove(sst, o)
        /\ sst[o].order.destination.provinceId \in OriginsOf(sst, K)

\* every Move of K succeeds and no unit of K is dislodged
Rotated(sst, K) ==
    /\ \A k \in K : resolutions[k].status = "succeeds"
    /\ ~\E u \in 1..Len(state.dislodgedUnits) :
           state.dislodgedUnits[u].unit.location.provinceId \in OriginsOf(sst, K)

UndisturbedCyclesRotate(sst) ==
    \A K \in SUBSET (1..Len(sst)) :
        ClosedCycle(sst, K) /\ Undisturbed(sst, K) => Rotated(sst, K)

\* C32: when three or more units each move into the region of the next
\* unit of a closed cycle, and no unit outside the cycle moves into a region
\* of the cycle, every Move of the cycle succeeds and no unit of the cycle
\* is dislodged.
C32_CircularMovement == Adjudicated => UndisturbedCyclesRotate(withStrengths(input, orders))

SomeCycleRotates(sst) ==
    \E K \in SUBSET (1..Len(sst)) :
        ClosedCycle(sst, K) /\ Undisturbed(sst, K) /\ Rotated(sst, K)

\* the rotation of three armies has been adjudicated, with a support for
\* one of its Moves
C32_Witness ==
    /\ Adjudicated
    /\ Len(orders) = 4
    /\ \E s \in 1..Len(orders) : orders[s].order.type = "support"
    /\ SomeCycleRotates(withStrengths(input, orders))

\* the units of the position at the location the order i is addressed to
UnitsAt(i) ==
    {u \in 1..Len(input.units) :
        input.units[u].location.provinceId = getOrderLocation(orders[i].order).provinceId}

\* the unit the order i is addressed to, of the power that gives the order
OrderedUnits(i) == {u \in UnitsAt(i) : input.units[u].power = orders[i].power}

\* the unit can itself move to the region d: an army over land, a fleet
\* along the coast it is on
CanMoveTo(unit, d) ==
    /\ d \in Provinces
    /\ unit.location.provinceId \in Provinces
    /\ d # unit.location.provinceId
    /\ IF unit.type = "Army"
       THEN PROVINCES[d].type # "sea" /\ Includes(PROVINCES[unit.location.provinceId].armyAdj, d)
       ELSE /\ PROVINCES[d].type # "land"
            /\ LET here == PROVINCES[unit.location.provinceId]
                   coast == IF here.type = "bicoastal"
                            THEN (IF unit.location.coast \in DOMAIN here.coastalAdj
                                  THEN here.coastalAdj[unit.location.coast] ELSE <<>>)
                            ELSE here.fleetAdj
               IN \E e \in 1..Len(coast) : coast[e].provinceId = d

\* the cases in which the order i is illegal; vst is the list of
\* resolution states after validation and the convoy step
NoUnitThere(i) == orders[i].order.type \in {"hold", "move", "support", "convoy"} /\ UnitsAt(i) = {}

ForeignUnit(i) ==
    /\ orders[i].order.type \in {"hold", "move", "support", "convoy"}
    /\ UnitsAt(i) # {}
    /\ OrderedUnits(i) = {}

MoveToOwnRegion(i) ==
    /\ orders[i].order.type = "move"
    /\ orders[i].order.destination.provinceId = orders[i].order.unit.provinceId

UnreachableMove(vst, i) ==
    /\ orders[i].order.type = "move"
    /\ ~orders[i].order.viaConvoy
    /\ \E u \in OrderedUnits(i) :
          /\ ~CanMoveTo(input.units[u], orders[i].order.destination.provinceId)
          /\ \/ input.units[u].type = "Fleet"
             \/ orders[i].order.destination.provinceId \notin Provinces
             \/ PROVINCES[orders[i].order.destination.provinceId].type = "sea"
             \/ ~ConvoyChain(vst, i)

ConvoyedFleet(i) ==
    /\ orders[i].order.type = "move"
    /\ orders[i].order.viaConvoy
    /\ \E u \in OrderedUnits(i) : input.units[u].type = "Fleet"

UnreachableSupport(i) ==
    /\ orders[i].order.type = "support"
    /\ \E u \in OrderedUnits(i) :
          ~CanMoveTo(input.units[u], orders[i].order.destination.provinceId)

ConvoyNotAtSea(i) ==
    /\ orders[i].order.type = "convoy"
    /\ \E u \in OrderedUnits(i) :
          \/ input.units[u].type # "Fleet"
          \/ PROVINCES[input.units[u].location.provinceId].type # "sea"

Illegal(vst, i) ==
    \/ NoUnitThere(i)
    \/ ForeignUnit(i)
    \/ MoveToOwnRegion(i)
    \/ UnreachableMove(vst, i)
    \/ ConvoyedFleet(i)
    \/ UnreachableSupport(i)
    \/ ConvoyNotAtSea(i)

\* every illegal order is void after validation and is not a Move that succeeds
IllegalOrdersVoid(vst) ==
    \A i \in 1..Len(orders) :
        Illegal(vst, i) => vst[i].status = "void" /\ resolutions[i].status # "succeeds"

\* C33: validation marks an order void, and a void order never moves a
\* unit, in each of these cases: no unit stands at the ordered location; the
\* unit belongs to another power; a Move names the unit's own region; a
\* Move's destination cannot be reached by the unit's kind and no convoy
\* applies (army to sea, fleet to inland, fleet along a non-adjacent coast);
\* a fleet asks to be convoyed; a Support names a destination the supporter
\* could not itself move to; a Convoy is ordered by anything other than a
\* fleet in a sea region.
C33_IllegalOrdersVoid == Adjudicated => IllegalOrdersVoid(withConvoys(input, orders))

\* the list of orders without its entry i
WithoutOrder(ords, i) ==
    [k \in 1..(Len(ords) - 1) |-> IF k < i THEN ords[k] ELSE ords[k + 1]]

\* the result r of adjudicating the orders without the order i has the
\* next state and, for every other submitted order, the status that the
\* adjudication of all the orders gave
SameWithout(i, r) ==
    /\ r.newState = state
    /\ \A k \in 1..(Len(orders) - 1) :
          r.resolutions[k].status = resolutions[IF k < i THEN k ELSE k + 1].status

\* C34: an order that is void because no unit stands at its location, or
\* because the unit there belongs to another power, has no effect on the
\* rest of the adjudication: the statuses of all other orders and the next
\* state are the same as if that order had not been submitted.
C34_VoidOrderHasNoEffect ==
    Adjudicated =>
        \A i \in 1..Len(orders) :
            NoUnitThere(i) \/ ForeignUnit(i) =>
                SameWithout(i, resolveDiplomacy(input, WithoutOrder(orders, i)))

(***************************************************************************)
(* Retreat adjudications by themselves: one call of resolve on each of the *)
(* Retreat positions that Movement adjudications leave                     *)
(***************************************************************************)
\* the positions after the Movement adjudications that dislodge the units;
\* `pool` are the orders the powers may submit for the Retreat phase
RetreatScenarios ==
    << \* the armies in Constantinople and Ankara are dislodged by supported
       \* attacks from Bulgaria and the Black Sea; both can retreat to Smyrna
       [state |-> resolveDiplomacy(
                      GameState(TurnInfo(1901, "Spring", "Diplomacy"),
                                <<MkUnit("Army", "Turkey", P("con")),
                                  MkUnit("Army", "Austria", P("ank")),
                                  MkUnit("Army", "Russia", P("bul")),
                                  MkUnit("Fleet", "Russia", P("aeg")),
                                  MkUnit("Fleet", "Russia", P("bla")),
                                  MkUnit("Army", "Russia", P("arm"))>>,
                                HomeOwners, <<>>),
                      <<O("Russia", MoveOrder(P("bul"), P("con"), FALSE)),
                        O("Russia", SupportOrder(P("aeg"), P("bul"), P("con"))),
                        O("Russia", MoveOrder(P("bla"), P("ank"), FALSE)),
                        O("Russia", SupportOrder(P("arm"), P("bla"), P("ank")))>>).newState,
        pool |-> <<O("Turkey", RetreatOrder(P("con"), P("smy"))),
                   O("Turkey", RetreatOrder(P("con"), P("bul"))),
                   O("Turkey", DisbandOrder(P("con"))),
                   O("Austria", RetreatOrder(P("ank"), P("smy"))),
                   O("Austria", RetreatOrder(P("ank"), P("con"))),
                   O("Austria", DisbandOrder(P("ank"))),
                   O("Russia", RetreatOrder(P("ank"), P("smy")))>>],
       \* the fleet in Constantinople is dislodged from Smyrna with the
       \* support of Ankara; it can retreat to the Black Sea, the Aegean Sea
       \* and either coast of Bulgaria
       [state |-> resolveDiplomacy(
                      GameState(TurnInfo(1901, "Fall", "Diplomacy"),
                                <<MkUnit("Fleet", "Turkey", P("con")),
                                  MkUnit("Army", "Russia", P("smy")),
                                  MkUnit("Army", "Russia", P("ank"))>>,
                                HomeOwners, <<>>),
                      <<O("Russia", MoveOrder(P("smy"), P("con"), FALSE)),
                        O("Russia", SupportOrder(P("ank"), P("smy"), P("con")))>>).newState,
        pool |-> <<O("Turkey", RetreatOrder(P("con"), P("bla"))),
                   O("Turkey", RetreatOrder(P("con"), Loc("bul", "ec"))),
                   O("Turkey", RetreatOrder(P("con"), P("ank"))),
                   O("Turkey", RetreatOrder(P("con"), P("smy"))),
                   O("Turkey", DisbandOrder(P("con")))>>]
    >>

\* one of the Retreat positions, before resolve is called
RetreatInit ==
    /\ scenario \in 1..Len(RetreatScenarios)
    /\ state = RetreatScenarios[scenario].state
    /\ input = RetreatScenarios[scenario].state
    /\ orders = <<>>
    /\ resolutions = <<>>
    /\ outcome = "none"
    /\ NoCoordinator
    /\ NoEngine

\* one call of Adjudicator.resolve(state, orders) in the Retreat phase
AdjudicateRetreat ==
    /\ outcome = "none"
    /\ state.turn.phase = "Retreat"
    /\ \E ords \in OrderInputs(RetreatScenarios[scenario].pool) : Resolve(ords)

RetreatNext == AdjudicateRetreat

RetreatSpec == RetreatInit /\ [][RetreatNext]_vars

(***************************************************************************)
(* Properties of one Retreat adjudication; d is an index of the dislodged  *)
(* units of the position `input` the adjudication was called on            *)
(***************************************************************************)
RetreatAdjudicated == outcome = "returned" /\ input.turn.phase = "Retreat"

\* the regions of the retreat set of the dislodged unit d
RetreatSet(d) ==
    {input.dislodgedUnits[d].validRetreats[v].provinceId :
        v \in 1..Len(input.dislodgedUnits[d].validRetreats)}

\* the regions the dislodged unit d is ordered to retreat to by its power
OrderedRetreats(d) ==
    {orders[i].order.destination.provinceId : i \in
        {j \in 1..Len(orders) :
            /\ orders[j].order.type = "retreat"
            /\ orders[j].power = input.dislodgedUnits[d].unit.power
            /\ orders[j].order.unit.provinceId
                  = input.dislodgedUnits[d].unit.location.provinceId}}

\* the regions the dislodged unit d retreats to
RetreatsTo(d) == OrderedRetreats(d) \cap RetreatSet(d)

\* the regions the dislodged unit d retreats to and no other dislodged unit
\* retreats to
Uncontested(d) ==
    {r \in RetreatsTo(d) :
        ~\E e \in 1..Len(input.dislodgedUnits) : e # d /\ r \in RetreatsTo(e)}

\* the number of units of the kind and power of `unit` in the list, in the
\* regions R
CountIn(units, unit, R) ==
    Cardinality({k \in 1..Len(units) : /\ units[k].type = unit.type
                                       /\ units[k].power = unit.power
                                       /\ units[k].location.provinceId \in R})

\* how often the dislodged unit d is in the next state, in the regions R
Arrived(d, R) ==
    CountIn(state.units, input.dislodgedUnits[d].unit, R)
        - CountIn(input.units, input.dislodgedUnits[d].unit, R)

\* the dislodged unit d is in the next state once, in a region it retreats
\* to uncontested, if there is one, and is removed otherwise
Retreated(d) ==
    IF Uncontested(d) # {}
    THEN Arrived(d, Provinces) = 1 /\ Arrived(d, Uncontested(d)) = 1
    ELSE Arrived(d, Provinces) = 0

\* the units that were not dislodged are unchanged
OthersUnchanged ==
    /\ Len(state.units) >= Len(input.units)
    /\ SubSeq(state.units, 1, Len(input.units)) = input.units
    /\ Len(state.units) <= Len(input.units) + Len(input.dislodgedUnits)

\* C35: after a Retreat adjudication a dislodged unit is in the next state,
\* once and at the ordered destination, exactly when it has a Retreat order
\* to a region of its retreat set and no other dislodged unit retreats to
\* that region; a unit ordered to disband, a unit with no order, a unit
\* whose destination is not in its retreat set and every unit of a retreat
\* standoff is removed; units that were not dislodged are unchanged.
C35_RetreatOutcome ==
    RetreatAdjudicated =>
        /\ \A d \in 1..Len(input.dislodgedUnits) : Retreated(d)
        /\ OthersUnchanged

\* the regions from which a Move succeeded into the region p
OriginsInto(p) ==
    {resolutions[i].order.unit.provinceId : i \in
        {j \in 1..Len(resolutions) : /\ resolutions[j].order.type = "move"
                                     /\ resolutions[j].status = "succeeds"
                                     /\ resolutions[j].order.destination.provinceId = p}}

\* the regions in which a Move was bounced
BounceSites ==
    {resolutions[i].order.destination.provinceId : i \in
        {j \in 1..Len(resolutions) : /\ resolutions[j].order.type = "move"
                                     /\ resolutions[j].status = "bounced"}}

\* the regions with a unit in the next state
OccupiedNext == {state.units[u].location.provinceId : u \in 1..Len(state.units)}

\* the region r is a lawful retreat of the dislodged unit du; the unit that
\* dislodged du is the one recorded with du, whose Move into the region of
\* du succeeded
LawfulRetreat(du, r) ==
    /\ CanMoveTo(du.unit, r)
    /\ du.attackerFrom.provinceId \in OriginsInto(du.unit.location.provinceId)
    /\ r # du.attackerFrom.provinceId
    /\ r \notin BounceSites
    /\ r \notin OccupiedNext

\* C36: for every unit dislodged by a Movement adjudication, each region of
\* its recorded retreat set is adjacent for the unit's kind, is not the
\* origin of the unit that dislodged it, was not the site of a bounce in
\* that turn, and is unoccupied in the next state.
C36_RetreatSet ==
    Adjudicated =>
        \A d \in 1..Len(state.dislodgedUnits) :
            \A v \in 1..Len(state.dislodgedUnits[d].validRetreats) :
                LawfulRetreat(state.dislodgedUnits[d],
                              state.dislodgedUnits[d].validRetreats[v].provinceId)

\* a unit was dislodged that has a retreat, while a neighbouring region that
\* is empty in the next state was the site of a bounce
C36_Witness ==
    /\ Adjudicated
    /\ \E d \in 1..Len(state.dislodgedUnits) :
          /\ state.dislodgedUnits[d].validRetreats # <<>>
          /\ \E r \in BounceSites \ OccupiedNext :
                /\ CanMoveTo(state.dislodgedUnits[d].unit, r)
                /\ r # state.dislodgedUnits[d].attackerFrom.provinceId

\* the entries of the list stored under the hash
EntriesOf(entries, hash) == {k \in 1..Len(entries) : entries[k].hash = hash}

\* the entry the table must hold after put(entry) on the entries `before`:
\* the new entry for an absent hash, the entry with more visits for a
\* present one, the sums of the visits and of the values on a tie
Expected(before, entry) ==
    IF EntriesOf(before, entry.hash) = {} THEN entry
    ELSE LET old == before[CHOOSE k \in EntriesOf(before, entry.hash) : TRUE]
         IN IF entry.visits > old.visits THEN entry
            ELSE IF entry.visits < old.visits THEN old
            ELSE [old EXCEPT !.visits = old.visits + entry.visits,
                             !.totalValue = old.totalValue + entry.totalValue]

\* the entries `after` hold the hash of the entry once, with the visits and
\* the value that are expected
PutOutcome(before, entry, after) ==
    /\ Cardinality(EntriesOf(after, entry.hash)) = 1
    /\ \A k \in EntriesOf(after, entry.hash) :
          /\ after[k].visits = Expected(before, entry).visits
          /\ after[k].totalValue = Expected(before, entry).totalValue

\* C37: TranspositionTable.put inserts an entry whose hash is absent; when
\* the hash is already present it keeps whichever of the old and new
\* entries has more visits, and when the two visit counts are equal it
\* stores the sum of both visit counts and of both cumulative values.
C37_PutKeepsMoreVisited ==
    [][\A entry \in EntryInputs :
          table' = put(table, entry) => PutOutcome(table.entries, entry, table'.entries)]_vars

\* every power outside the coalition has no unit and no supply center
OpponentsEliminated(st, coalition) ==
    \A p \in PowerSet :
        ~InCoalition(coalition, p) =>
            /\ CentersOf(st, p) = {}
            /\ ~\E u \in 1..Len(st.units) : st.units[u].power = p

\* a terminal win of the state for the search of the coalition
TerminalWin(st, coalition) == Dominating(st) # {} \/ OpponentsEliminated(st, coalition)

\* the node the search creates for the state is terminal, with no order
\* set to expand, exactly when `win` holds
TerminalNode(node, win) ==
    /\ node.isTerminal <=> win
    /\ win => node.untriedOrders = 0

\* C38: the search treats a state as terminal, stopping a rollout there and
\* never expanding a node for it, exactly when the fitness function reports
\* a terminal win for that state: some power owns 18 or more supply
\* centers, or every non-coalition power has zero units and zero supply
\* centers.
C38_TerminalStates ==
    Calculated =>
        /\ call.result.isWin <=> TerminalWin(call.state, call.coalition)
        /\ TerminalNode(createNode(call.state, <<>>, <<>>), call.result.isWin)

\* the state is a terminal win of the coalition: a power of the coalition
\* owns 18 centers or more, or no power outside the coalition is left
CoalitionWins(st, coalition) ==
    \/ \E p \in Dominating(st) : InCoalition(coalition, p)
    \/ Dominating(st) = {} /\ OpponentsEliminated(st, coalition)

\* the value v of a rollout is between 0 and 1, and is 1 for a win
RolloutValue(v, win) ==
    /\ ~RatLess(v, RatInt(0))
    /\ ~RatLess(RatInt(1), v)
    /\ win => v = RatInt(1)

\* C39: the value returned by every rollout and added to the tree by
\* backpropagation lies in the interval from 0 to 1 inclusive, for every
\* state, coalition and set of priorities, and is 1 when the rollout ends
\* in a terminal win of the coalition.
C39_RolloutValue ==
    Calculated =>
        RolloutValue(normalizeScore(call.result.score),
                     CoalitionWins(call.state, call.coalition))

\* the node `after` is the node `before` with one visit more, the value and
\* its square added
Added(before, after, value) ==
    /\ after.visits = before.visits + 1
    /\ after.totalValue = RatAdd(before.totalValue, value)
    /\ after.squaredValueSum = RatAdd(before.squaredValueSum, RatMul(value, value))
    /\ [after EXCEPT !.visits = 0, !.totalValue = RatInt(0), !.squaredValueSum = RatInt(0)]
          = [before EXCEPT !.visits = 0, !.totalValue = RatInt(0),
                           !.squaredValueSum = RatInt(0)]

\* the engine f is the engine e after the backpropagation of e.value from
\* the node e.node: the root and the node are on the path, the other
\* children of the root are not
PathUpdated(e, f) ==
    /\ Added(e.root, f.root, e.value)
    /\ Len(f.children) = Len(e.children)
    /\ \A k \in 1..Len(e.children) :
          IF k = e.node THEN Added(e.children[k], f.children[k], e.value)
          ELSE f.children[k] = e.children[k]

RECURSIVE SumOfVisits(_)
SumOfVisits(nodes) ==
    IF nodes = <<>> THEN 0 ELSE Head(nodes).visits + SumOfVisits(Tail(nodes))

====
